---- MODULE Spec2Model ----
(***************************************************************************)
(* Model of the VST3 host engine in engine/vst3_host/vst3_host.cpp:        *)
(* the processing engine and its event queue, the state codec and the      *)
(* editor embedder.  Every C API entry point is one action; the plugin's   *)
(* answers (tresult values, produced views, state blobs) are inputs drawn  *)
(* from small sets.  Each action records the entry point just called in    *)
(* `op`, its return value in `ret`, and in `calls` the calls that entry    *)
(* point made on plugin objects, in order.                                 *)
(***************************************************************************)
EXTENDS Integers, Sequences, FiniteSets, TLC

VARIABLES
    g_last_error,     \* static std::string g_last_error
    processor,        \* instance->processor is non-null
    controller,       \* instance->controller is non-null
    initialized,      \* instance->initialized
    active,           \* instance->active
    max_block_size,   \* instance->max_block_size
    midi_events,      \* instance->midi_events (EventList), oldest first
    process_failed,   \* plugin side: a process call of this instance has failed
    editor_view,      \* instance->editor_view is non-null
    plug_frame,       \* instance->plug_frame is non-null
    parent_window,    \* instance->parent_window (NullWindow = nullptr)
    editor_open,      \* instance->editor_open
    view_frame,       \* plugin side: argument of the view's last setFrame
    view_attached,    \* plugin side: the view is attached to a window
    view_notified,    \* plugin side: attached() received since the last removed()
    resizeRecursionGuard_,  \* PlugFrame::resizeRecursionGuard_
    resize_pc,        \* position of the resizeView call being serviced
    resize_req,       \* newSize of the resizeView call being serviced
    resize_nested,    \* notifications answered while that call was serviced
    g_host_app,       \* static g_host_app is non-null
    g_component_handler,  \* static g_component_handler (NullHandler = nullptr)
    handlers_created, \* number of ComponentHandler objects created so far
    loaded,           \* the instance exists (load returned it, not yet unloaded)
    compCP,           \* plugin side: the component exposes IConnectionPoint
    ctrlCP,           \* plugin side: the controller exposes IConnectionPoint
    connected,        \* plugin side: component and controller are connected
    component_handler,  \* plugin side: handler installed on the controller
    procState,        \* plugin side: component state blob, per instance
    ctrlState,        \* plugin side: controller state blob, per instance
    buffer,           \* caller's byte buffer of the last state call
    audio_thread,     \* the vst3_process_audio call in progress on the audio thread
    happy_path,       \* how many calls of HappyPath the last API calls have completed
    error_recorded,   \* the last API call went through set_error
    op,               \* the API call just made, with its arguments
    calls,            \* calls made on plugin objects by that API call
    ret               \* value returned by that API call

engineVars == <<processor, controller, initialized, active, max_block_size,
                midi_events, process_failed>>
editorVars == <<editor_view, plug_frame, parent_window, editor_open,
                view_frame, view_attached, view_notified>>
resizeVars == <<resizeRecursionGuard_, resize_pc, resize_req, resize_nested>>
codecVars  == <<procState, ctrlState, buffer>>
hostVars == <<g_host_app, g_component_handler, handlers_created>>
pluginVars == <<loaded, compCP, ctrlCP, connected, component_handler>>
lifecycleVars == <<hostVars, pluginVars>>
vars == <<g_last_error, engineVars, editorVars, resizeVars, codecVars,
          lifecycleVars, audio_thread, happy_path, error_recorded, op, calls,
          ret>>

----------------------------------------------------------------------------
(* Bounds of the exploration and program constants.                        *)

\* EventList capacity given to the constructor: midi_events(128)
QueueCapacity == 128
\* default max_block_size of a new instance
DefaultBlockSize == 512
\* the caller varies the enqueued event only in the first VaryLen queue slots
VaryLen == 1
\* longest processor / controller blob the plugin produces
MaxBlob == 1
\* most notifications the view sends while one resizeView call is serviced
MaxNested == 2
\* most class descriptors in a module's factory
MaxClasses == 2
\* most ComponentHandler objects created (host sessions) in one run
MaxHandlers == 2

NullHandle == 0
InstA == 1
InstB == 2
Instances == {InstA, InstB}
NullWindow == 0
Windows == {1, 2}

\* tresult values the model distinguishes (kResultTrue = kResultOk)
kResultOk == "kResultOk"
kResultFalse == "kResultFalse"
TResults == {kResultOk, kResultFalse}

----------------------------------------------------------------------------
(* Fixed-width integer conversions.                                        *)

MinInt32 == (-2147483647) - 1
MaxInt32 == 2147483647

\* static_cast<int16>(x)
Int16(x) == ((x + 32768) % 65536) - 32768

\* std::memcpy(ptr, &v, 4) of an int32 v: its four bytes, lowest first
Encode32(v) == <<v % 256, (v \div 256) % 256, (v \div 65536) % 256,
                 (v \div 16777216) % 256>>

\* std::memcpy(&v, ptr, 4) into an int32 v from the bytes b[at+1 .. at+4]
Decode32(b, at) ==
    b[at + 1] + 256 * b[at + 2] + 65536 * b[at + 3]
      + 16777216 * (IF b[at + 4] >= 128 THEN b[at + 4] - 256 ELSE b[at + 4])

----------------------------------------------------------------------------
(* Event queue (Steinberg::Vst::EventList as used by the instance).        *)

\* the Event built by vst3_process_midi_event for a note-on / note-off;
\* velocity is data2 / 127.0f, kept as the numerator over 127
MakeEvent(event_type, channel, data1, data2, sample_offset) ==
    [type         |-> IF event_type = 0 THEN "kNoteOnEvent" ELSE "kNoteOffEvent",
     channel      |-> Int16(channel),
     pitch        |-> Int16(data1),
     velocity127  |-> data2,
     sampleOffset |-> sample_offset]

\* EventList::addEvent: stores the event if there is room
AddEventResult(q) == IF Len(q) < QueueCapacity THEN kResultOk ELSE kResultFalse

\* fault variant: addEvent that stores the event although the list is full
AddEvent_Unbounded(q, e) == Append(q, e)

\* fault variant: addEvent that puts the new event in front of the others
AddEvent_Front(q, e) == IF Len(q) < QueueCapacity THEN <<e>> \o q ELSE q

AddEvent(q, e) == IF Len(q) < QueueCapacity THEN Append(q, e) ELSE q

\* fault variant: clear that leaves the events in place
ClearEvents_Keep(q) == q

\* EventList::clear
ClearEvents(q) == << >>

\* fault variant: the list is handed over also when it holds no event
InputEvents_AlwaysPresent(q) == [present |-> TRUE, events |-> q]

\* data.inputEvents handed to the plugin: the instance's list, or nullptr
\* (present FALSE) when it holds no event
InputEvents(q) == IF Len(q) > 0 THEN [present |-> TRUE, events |-> q]
                  ELSE [present |-> FALSE, events |-> << >>]

----------------------------------------------------------------------------
(* Result of an API call: op, calls, ret, and g_last_error via set_error.  *)

\* the call sequence of a complete instance lifetime
HappyPath ==
    <<"vst3_host_init", "vst3_load_plugin", "vst3_initialize_plugin",
      "vst3_activate_plugin", "vst3_process_audio", "vst3_deactivate_plugin",
      "vst3_unload_plugin">>

\* the call o returned r and did what it was called for
Succeeded(o, r) ==
    IF o.name = "vst3_load_plugin" THEN r # NullHandle
    ELSE IF o.name = "vst3_unload_plugin" THEN o.handle # NullHandle
    ELSE r = TRUE

\* progress along HappyPath after the call o returned r: one further if o
\* is the next call of the sequence and succeeded, else back to the start
NextHappy(h, o, r) ==
    IF h < Len(HappyPath) /\ o.name = HappyPath[h + 1] /\ Succeeded(o, r)
    THEN h + 1
    ELSE IF o.name = HappyPath[1] THEN 1
    ELSE 0

\* what every return records: the call, the plugin calls it made, its result
Returned(o, c, r) ==
    /\ op' = o
    /\ calls' = c
    /\ ret' = r
    /\ happy_path' = NextHappy(happy_path, o, r)

\* return without calling set_error, from a call that ran to its end on the
\* caller's thread
Return(o, c, r) ==
    /\ Returned(o, c, r)
    /\ error_recorded' = FALSE
    /\ UNCHANGED <<g_last_error, audio_thread>>

\* set_error(msg) followed by return
ReturnError(o, c, r, msg) ==
    /\ Returned(o, c, r)
    /\ g_last_error' = msg
    /\ error_recorded' = TRUE
    /\ UNCHANGED audio_thread

----------------------------------------------------------------------------
(* Processing engine: initialize, activate, deactivate, process, enqueue.  *)

BlockSizes == {256}
FrameCounts == {64, 1024}
EventTypes == {0, 1, 2, 3}
Channels == {0}
Pitches == {60}
Velocities == {100}
Offsets == {0}

vst3_initialize_plugin(h, block, setupRes, outBusRes) ==
    LET o == [name |-> "vst3_initialize_plugin", handle |-> h,
              max_block_size |-> block]
        setup == [obj |-> "processor", fn |-> "setupProcessing",
                  maxSamplesPerBlock |-> block, res |-> setupRes]
        inBus == [obj |-> "component", fn |-> "activateBus", dir |-> "kInput"]
        outBus == [obj |-> "component", fn |-> "activateBus", dir |-> "kOutput",
                   res |-> outBusRes]
    IN
    /\ UNCHANGED <<processor, controller, active, midi_events, process_failed,
                   editorVars, resizeVars, codecVars, lifecycleVars>>
    /\ IF h = NullHandle
       THEN /\ ReturnError(o, << >>, FALSE, "Invalid handle")
            /\ UNCHANGED <<initialized, max_block_size>>
       ELSE IF ~processor
       THEN /\ ReturnError(o, << >>, FALSE, "No audio processor interface")
            /\ UNCHANGED <<initialized, max_block_size>>
       ELSE /\ max_block_size' = block
            /\ IF setupRes # kResultOk
               THEN /\ ReturnError(o, <<setup>>, FALSE, "Failed to setup processing")
                    /\ UNCHANGED initialized
               ELSE IF outBusRes # kResultOk
               THEN /\ ReturnError(o, <<setup, inBus, outBus>>, FALSE,
                                   "Failed to activate output bus")
                    /\ UNCHANGED initialized
               ELSE /\ Return(o, <<setup, inBus, outBus>>, TRUE)
                    /\ initialized' = TRUE

\* fault variant: a guard that also refuses an instance not yet active
NotInitialized_OrInactive == ~initialized \/ ~processor \/ ~active

\* the guard of vst3_activate_plugin: !instance->initialized || !instance->processor
NotInitialized == ~initialized \/ ~processor

vst3_activate_plugin(h, res) ==
    LET o == [name |-> "vst3_activate_plugin", handle |-> h]
        setProc == [obj |-> "processor", fn |-> "setProcessing", state |-> TRUE,
                    res |-> res]
    IN
    /\ UNCHANGED <<processor, controller, initialized, max_block_size, midi_events,
                   process_failed, editorVars, resizeVars, codecVars, lifecycleVars>>
    /\ IF h = NullHandle
       THEN /\ ReturnError(o, << >>, FALSE, "Invalid handle")
            /\ UNCHANGED active
       ELSE IF NotInitialized
       THEN /\ ReturnError(o, << >>, FALSE, "Plugin not initialized")
            /\ UNCHANGED active
       ELSE IF res # kResultOk
       THEN /\ ReturnError(o, <<setProc>>, FALSE, "Failed to start processing")
            /\ UNCHANGED active
       ELSE /\ Return(o, <<setProc>>, TRUE)
            /\ active' = TRUE

vst3_deactivate_plugin(h) ==
    LET o == [name |-> "vst3_deactivate_plugin", handle |-> h]
        setProc == [obj |-> "processor", fn |-> "setProcessing", state |-> FALSE]
    IN
    /\ UNCHANGED <<processor, controller, initialized, max_block_size, midi_events,
                   process_failed, editorVars, resizeVars, codecVars, lifecycleVars>>
    /\ IF h = NullHandle
       THEN /\ Return(o, << >>, FALSE)
            /\ UNCHANGED active
       ELSE IF active /\ processor
       THEN /\ Return(o, <<setProc>>, TRUE)
            /\ active' = FALSE
       ELSE /\ Return(o, << >>, TRUE)
            /\ UNCHANGED active

\* fault variant: a guard that also refuses once a process call has failed
NotActive_OrFailed == ~active \/ ~processor \/ process_failed

\* fault variant: the guard of vst3_process_audio without the active test
NotActive_ProcessorOnly == ~processor

\* the guard of vst3_process_audio: !instance->active || !instance->processor
NotActive == ~active \/ ~processor

vst3_process_audio(h, num_frames, res) ==
    LET o == [name |-> "vst3_process_audio", handle |-> h, num_frames |-> num_frames]
        process == [obj |-> "processor", fn |-> "process", numSamples |-> num_frames,
                    inputEvents |-> InputEvents(midi_events), res |-> res]
    IN
    /\ UNCHANGED <<processor, controller, initialized, active, max_block_size,
                   editorVars, resizeVars, codecVars, lifecycleVars>>
    /\ IF h = NullHandle
       THEN /\ ReturnError(o, << >>, FALSE, "Invalid handle")
            /\ UNCHANGED <<midi_events, process_failed>>
       ELSE IF NotActive
       THEN /\ ReturnError(o, << >>, FALSE, "Plugin not active")
            /\ UNCHANGED <<midi_events, process_failed>>
       ELSE /\ midi_events' = ClearEvents(midi_events)
            /\ process_failed' = (process_failed \/ res # kResultOk)
            /\ IF res # kResultOk
               THEN ReturnError(o, <<process>>, FALSE, "Audio processing failed")
               ELSE Return(o, <<process>>, TRUE)

\* fault variant: a switch whose control-change case falls into note-off
EventKind_ControlChangeStored(event_type) ==
    IF event_type = 0 THEN "note on"
    ELSE IF event_type \in {1, 2} THEN "note off"
    ELSE "unknown"

\* switch (event_type): 0 note on, 1 note off, 2 control change, else default
EventKind(event_type) ==
    IF event_type = 0 THEN "note on"
    ELSE IF event_type = 1 THEN "note off"
    ELSE IF event_type = 2 THEN "control change"
    ELSE "unknown"

vst3_process_midi_event(h, event_type, channel, data1, data2, sample_offset) ==
    LET o == [name |-> "vst3_process_midi_event", handle |-> h,
              event_type |-> event_type, channel |-> channel, data1 |-> data1,
              data2 |-> data2, sample_offset |-> sample_offset]
        event == MakeEvent(event_type, channel, data1, data2, sample_offset)
    IN
    /\ UNCHANGED <<processor, controller, initialized, active, max_block_size,
                   process_failed, editorVars, resizeVars, codecVars, lifecycleVars>>
    /\ IF h = NullHandle
       THEN /\ ReturnError(o, << >>, FALSE, "Invalid handle")
            /\ UNCHANGED midi_events
       ELSE IF ~processor
       THEN /\ ReturnError(o, << >>, FALSE, "No processor available")
            /\ UNCHANGED midi_events
       ELSE IF EventKind(event_type) = "control change"
       THEN /\ Return(o, << >>, TRUE)
            /\ UNCHANGED midi_events
       ELSE IF EventKind(event_type) = "unknown"
       THEN /\ ReturnError(o, << >>, FALSE, "Unknown MIDI event type")
            /\ UNCHANGED midi_events
       ELSE /\ midi_events' = AddEvent(midi_events, event)
            /\ IF AddEventResult(midi_events) # kResultOk
               THEN ReturnError(o, << >>, FALSE, "Failed to queue MIDI event")
               ELSE Return(o, << >>, TRUE)

----------------------------------------------------------------------------
(* Specification of the processing engine on one loaded instance.          *)

\* the note event every queue slot past the first VaryLen slots receives
DefaultEventArgs == <<0, 0, 60, 100, 0>>

\* the caller varies the event freely in the first VaryLen slots, for the
\* types that are never stored, and when the queue is full
EventArgsExplored(t, ch, d1, d2, off) ==
    \/ Len(midi_events) < VaryLen
    \/ Len(midi_events) >= QueueCapacity
    \/ t \notin {0, 1}
    \/ <<t, ch, d1, d2, off>> = DefaultEventArgs

\* no resizeView call is being serviced
NoSize == <<0, 0>>

\* ids of ComponentHandler objects; NullHandler is the null pointer
NullHandler == 0

\* the host after vst3_host_init, with one instance returned by load
InitHost ==
    /\ g_host_app = TRUE
    /\ g_component_handler = 1
    /\ handlers_created = 1
    /\ loaded = TRUE
    /\ compCP = TRUE
    /\ ctrlCP = TRUE
    /\ connected = controller
    /\ component_handler = IF controller THEN 1 ELSE NullHandler

\* no vst3_process_audio call is in progress
IdleAudio ==
    [pc |-> "idle", num_frames |-> 0, inputEvents |-> FALSE,
     handed |-> InputEvents(<< >>), result |-> kResultOk]

\* fields of a new VST3PluginInstance that load does not decide
InitInstance ==
    /\ audio_thread = IdleAudio
    /\ error_recorded = FALSE
    /\ happy_path = 0
    /\ g_last_error = ""
    /\ initialized = FALSE
    /\ active = FALSE
    /\ max_block_size = DefaultBlockSize
    /\ midi_events = << >>
    /\ editor_view = FALSE
    /\ plug_frame = FALSE
    /\ parent_window = NullWindow
    /\ editor_open = FALSE
    /\ view_frame = "none"
    /\ view_attached = FALSE
    /\ view_notified = FALSE
    /\ process_failed = FALSE
    /\ resizeRecursionGuard_ = FALSE
    /\ resize_pc = "idle"
    /\ resize_req = NoSize
    /\ resize_nested = 0
    /\ buffer = << >>
    /\ op = [name |-> "vst3_load_plugin"]
    /\ calls = << >>
    /\ ret = InstA

\* the engine's entry points never read the controller
Init ==
    /\ InitInstance
    /\ processor \in BOOLEAN
    /\ controller = TRUE
    /\ InitHost
    /\ procState = [i \in Instances |-> << >>]
    /\ ctrlState = [i \in Instances |-> << >>]

\* handles a caller can pass: null, or the instance while it exists
Handles == {NullHandle} \cup (IF loaded THEN {InstA} ELSE {})

Initialize ==
    \E h \in Handles, block \in BlockSizes, setupRes \in TResults,
       outBusRes \in TResults :
        vst3_initialize_plugin(h, block, setupRes, outBusRes)

Activate == \E h \in Handles, res \in TResults : vst3_activate_plugin(h, res)

Deactivate == \E h \in Handles : vst3_deactivate_plugin(h)

ProcessAudio ==
    \E h \in Handles, n \in FrameCounts, res \in TResults :
        vst3_process_audio(h, n, res)

ProcessMidiEvent ==
    \E h \in Handles, t \in EventTypes, ch \in Channels, d1 \in Pitches,
       d2 \in Velocities, off \in Offsets :
        /\ EventArgsExplored(t, ch, d1, d2, off)
        /\ vst3_process_midi_event(h, t, ch, d1, d2, off)

Next ==
    \/ Initialize
    \/ Activate
    \/ Deactivate
    \/ ProcessAudio
    \/ ProcessMidiEvent

Spec == Init /\ [][Next]_vars

----------------------------------------------------------------------------
(* Specification of the events' content: the same engine, with a short     *)
(* queue and callers that pass arbitrary integers for channel, pitch and   *)
(* sample offset.                                                          *)

\* most events the callers of this specification leave in the queue
MaxQueued == 2

\* <<event_type, channel, data1, data2, sample_offset>> of the calls made:
\* a plain note-on; a note-off on a channel past int16; a note-on with a
\* pitch past int16 and a negative offset; a note-off whose offset is the
\* default block size
EventSamples ==
    { <<0, 0, 60, 100, 0>>,
      <<1, 65537, 60, 0, 255>>,
      <<0, 15, 40000, 127, -1>>,
      <<1, 0, 60, 100, 512>> }

ProcessMidiEventSample ==
    \E h \in Handles, a \in EventSamples :
        /\ Len(midi_events) < MaxQueued
        /\ vst3_process_midi_event(h, a[1], a[2], a[3], a[4], a[5])

NextEvents ==
    \/ Initialize
    \/ Activate
    \/ Deactivate
    \/ ProcessAudio
    \/ ProcessMidiEventSample

SpecEvents == Init /\ [][NextEvents]_vars

----------------------------------------------------------------------------
(* vst3_process_audio on the audio thread, step by step, with enqueue      *)
(* calls of another thread in between.  Neither function takes a lock.     *)
(* An addEvent and the plugin's reading of the list are each one step, so  *)
(* the plugin sees an event added during its process call or not according *)
(* to which came first.                                                    *)

\* a step of the audio thread inside vst3_process_audio: the call has not
\* returned, the instance changes only as the step says
ProcessStep(o, c) ==
    /\ op' = o
    /\ calls' = c
    /\ ret' = "pending"
    /\ UNCHANGED <<g_last_error, happy_path, error_recorded, processor, controller,
                   initialized, active, max_block_size, process_failed, editorVars,
                   resizeVars, codecVars, lifecycleVars>>

\* from the entry to the test of getEventCount() that sets data.inputEvents
process_audio_begin(h, num_frames) ==
    LET o == [name |-> "vst3_process_audio", handle |-> h, num_frames |-> num_frames]
    IN
    /\ audio_thread.pc = "idle"
    /\ IF h = NullHandle
       THEN /\ ReturnError(o, << >>, FALSE, "Invalid handle")
            /\ UNCHANGED <<engineVars, editorVars, resizeVars, codecVars,
                           lifecycleVars>>
       ELSE IF NotActive
       THEN /\ ReturnError(o, << >>, FALSE, "Plugin not active")
            /\ UNCHANGED <<engineVars, editorVars, resizeVars, codecVars,
                           lifecycleVars>>
       ELSE /\ ProcessStep(o, << >>)
            /\ audio_thread' = [IdleAudio EXCEPT !.pc = "process",
                                                 !.num_frames = num_frames,
                                                 !.inputEvents = Len(midi_events) > 0]
            /\ UNCHANGED midi_events

\* processor->process(data): the plugin reads the list data.inputEvents
\* points to, as it is at this moment, or no list if the pointer is null
process_audio_call(res) ==
    LET o == [name |-> "vst3_process_audio", handle |-> InstA,
              num_frames |-> audio_thread.num_frames]
        handed == IF audio_thread.inputEvents
                  THEN [present |-> TRUE, events |-> midi_events]
                  ELSE [present |-> FALSE, events |-> << >>]
        process == [obj |-> "processor", fn |-> "process",
                    numSamples |-> audio_thread.num_frames,
                    inputEvents |-> handed, res |-> res]
    IN
    /\ audio_thread.pc = "process"
    /\ ProcessStep(o, <<process>>)
    /\ audio_thread' = [audio_thread EXCEPT !.pc = "clear", !.handed = handed,
                                            !.result = res]
    /\ UNCHANGED midi_events

\* midi_events.clear() and the return
process_audio_finish ==
    LET o == [name |-> "vst3_process_audio", handle |-> InstA,
              num_frames |-> audio_thread.num_frames]
        process == [obj |-> "processor", fn |-> "process",
                    numSamples |-> audio_thread.num_frames,
                    inputEvents |-> audio_thread.handed,
                    res |-> audio_thread.result]
    IN
    /\ audio_thread.pc = "clear"
    /\ midi_events' = ClearEvents(midi_events)
    /\ process_failed' = (process_failed \/ audio_thread.result # kResultOk)
    /\ audio_thread' = IdleAudio
    /\ Returned(o, <<process>>, audio_thread.result = kResultOk)
    /\ IF audio_thread.result # kResultOk
       THEN g_last_error' = "Audio processing failed" /\ error_recorded' = TRUE
       ELSE g_last_error' = g_last_error /\ error_recorded' = FALSE
    /\ UNCHANGED <<processor, controller, initialized, active, max_block_size,
                   editorVars, resizeVars, codecVars, lifecycleVars>>

\* initialize, activate and deactivate are serialized against process by
\* the caller
SerializedLifecycle ==
    /\ audio_thread.pc = "idle"
    /\ \/ Initialize
       \/ Activate
       \/ Deactivate

ProcessBegin ==
    \E h \in Handles, n \in FrameCounts : process_audio_begin(h, n)

ProcessCall == \E res \in TResults : process_audio_call(res)

ProcessFinish == process_audio_finish

NextConcurrent ==
    \/ SerializedLifecycle
    \/ ProcessBegin
    \/ ProcessCall
    \/ ProcessFinish
    \/ ProcessMidiEventSample

SpecConcurrent == Init /\ [][NextConcurrent]_vars

----------------------------------------------------------------------------
(* State codec: vst3_get_state and vst3_set_state.  The plugin's component *)
(* state and controller state are the blobs getState writes to the stream  *)
(* and an accepted setState reads from it.                                 *)

\* content of a byte the callee has not written (get_state's output buffer)
Untouched == -1
\* stands for the bytes a MemoryStream copies from beyond the caller's buffer
OutOfBounds == -2

\* fault variant: a total that leaves out the controller blob
StateTotalSize_NoController(processorSize, controllerSize) == 8 + processorSize

\* int32 totalSize = 8 + processorSize + controllerSize
StateTotalSize(processorSize, controllerSize) == 8 + processorSize + controllerSize

\* the first Len(bytes) bytes of buf overwritten by bytes (memcpy into data)
Overwrite(buf, bytes) ==
    [i \in 1..Len(buf) |-> IF i <= Len(bytes) THEN bytes[i] ELSE buf[i]]

vst3_get_state(h, data_null, max_size, compRes, ctrlRes) ==
    LET o == [name |-> "vst3_get_state", handle |-> h, data_null |-> data_null,
              max_size |-> max_size]
        data == IF data_null THEN << >> ELSE [i \in 1..max_size |-> Untouched]
        compGet == [obj |-> "component", fn |-> "getState", res |-> compRes]
        ctrlGet == [obj |-> "controller", fn |-> "getState", res |-> ctrlRes]
        made == IF controller THEN <<compGet, ctrlGet>> ELSE <<compGet>>
        hasControllerState == controller /\ ctrlRes = kResultOk
        processorStream == procState[h]
        controllerStream == ctrlState[h]
        processorSize == Len(processorStream)
        controllerSize == IF hasControllerState THEN Len(controllerStream) ELSE 0
        totalSize == StateTotalSize(processorSize, controllerSize)
        written == Encode32(processorSize) \o Encode32(controllerSize)
                     \o processorStream
                     \o (IF controllerSize > 0 THEN controllerStream ELSE << >>)
    IN
    /\ UNCHANGED <<engineVars, editorVars, resizeVars, lifecycleVars, procState,
                   ctrlState>>
    /\ IF h = NullHandle \/ data_null \/ max_size < 8
       THEN /\ Return(o, << >>, -1)
            /\ buffer' = data
       ELSE IF compRes # kResultOk
       THEN /\ Return(o, <<compGet>>, -1)
            /\ buffer' = data
       ELSE IF totalSize > max_size
       THEN /\ Return(o, made, -1)
            /\ buffer' = data
       ELSE /\ Return(o, made, totalSize)
            /\ buffer' = Overwrite(data, written)

\* 8 + processorSize + controllerSize > size in int32 arithmetic, evaluated
\* left to right; a sum that leaves the int32 range is undefined, and then
\* the test may come out either way (ub)
SumOverflows(processorSize, controllerSize) ==
    IF processorSize > MaxInt32 - 8
    THEN TRUE
    ELSE LET t == 8 + processorSize IN
         IF controllerSize > 0 THEN t > MaxInt32 - controllerSize
         ELSE IF controllerSize < 0 THEN t < MinInt32 - controllerSize
         ELSE FALSE

SizesExceed(processorSize, controllerSize, size, ub) ==
    IF SumOverflows(processorSize, controllerSize)
    THEN ub
    ELSE 8 + processorSize + controllerSize > size

\* MemoryStream(data + from, len): the bytes copied out of the caller's
\* buffer; a copy that runs past the end of the buffer reads foreign memory
StreamInBounds(data, from, len) == from <= Len(data) /\ len <= Len(data) - from
StreamBytes(data, from, len) ==
    IF StreamInBounds(data, from, len)
    THEN SubSeq(data, from + 1, from + len)
    ELSE SubSeq(data, from + 1, Len(data)) \o <<OutOfBounds>>

\* ptr += len, as an offset into the caller's buffer; every offset past the
\* end of the buffer is kept as size + 1
AdvancePtr(from, len, size) == IF len <= size - from THEN from + len ELSE size + 1

\* if (processorSize > 0)
HasProcessorBlob(processorSize) == processorSize > 0

\* if (controllerSize > 0 && instance->controller)
HasControllerBlob(controllerSize) == controllerSize > 0 /\ controller

vst3_set_state(h, data_null, data, compRes, ctrlRes, ub) ==
    LET size == Len(data)
        o == [name |-> "vst3_set_state", handle |-> h, data_null |-> data_null,
              data |-> data, size |-> size]
        processorSize == Decode32(data, 0)
        controllerSize == Decode32(data, 4)
        compSet == [obj |-> "component", fn |-> "setState", from |-> 8,
                    len |-> processorSize,
                    inBounds |-> StreamInBounds(data, 8, processorSize),
                    blob |-> StreamBytes(data, 8, processorSize), res |-> compRes]
        compSync == [obj |-> "controller", fn |-> "setComponentState", from |-> 8,
                     len |-> processorSize,
                     inBounds |-> StreamInBounds(data, 8, processorSize),
                     blob |-> StreamBytes(data, 8, processorSize)]
        ptr == IF HasProcessorBlob(processorSize)
               THEN AdvancePtr(8, processorSize, size)
               ELSE 8
        ctrlSet == [obj |-> "controller", fn |-> "setState", from |-> ptr,
                    len |-> controllerSize,
                    inBounds |-> StreamInBounds(data, ptr, controllerSize),
                    blob |-> StreamBytes(data, ptr, controllerSize), res |-> ctrlRes]
        procCalls == IF ~HasProcessorBlob(processorSize) THEN << >>
                     ELSE IF controller THEN <<compSet, compSync>> ELSE <<compSet>>
        ctrlCalls == IF HasControllerBlob(controllerSize) THEN <<ctrlSet>> ELSE << >>
    IN
    /\ UNCHANGED <<engineVars, editorVars, resizeVars, lifecycleVars>>
    /\ buffer' = data
    /\ IF h = NullHandle \/ data_null \/ size < 8
       THEN /\ Return(o, << >>, FALSE)
            /\ UNCHANGED <<procState, ctrlState>>
       ELSE IF SizesExceed(processorSize, controllerSize, size, ub)
       THEN /\ Return(o, << >>, FALSE)
            /\ UNCHANGED <<procState, ctrlState>>
       ELSE IF HasProcessorBlob(processorSize) /\ compRes # kResultOk
       THEN /\ Return(o, <<compSet>>, FALSE)
            /\ UNCHANGED <<procState, ctrlState>>
       ELSE /\ Return(o, procCalls \o ctrlCalls, TRUE)
            /\ procState' = IF HasProcessorBlob(processorSize)
                            THEN [procState EXCEPT ![h] = compSet.blob]
                            ELSE procState
            /\ ctrlState' = IF HasControllerBlob(controllerSize) /\ ctrlRes = kResultOk
                            THEN [ctrlState EXCEPT ![h] = ctrlSet.blob]
                            ELSE ctrlState

----------------------------------------------------------------------------
(* Specification of the state codec: two instances of one plugin, InstA    *)
(* the one exported from and InstB the one imported into.                  *)

\* states the plugin can be in: a processor blob and a controller blob of n bytes
ProcBlob(n) == [i \in 1..n |-> 80 + i]
CtrlBlob(n) == [i \in 1..n |-> 64 + i]
ProcBlobs == {ProcBlob(n) : n \in 0..MaxBlob}
CtrlBlobs == {CtrlBlob(n) : n \in 0..MaxBlob}

\* records a caller may hand to vst3_set_state besides an exported one:
\* any of these header fields (as int32) in front of any of these payloads,
\* and records shorter than the header
HeaderValues == {0, 1, -1, MaxInt32}
Payload(n) == [i \in 1..n |-> 96 + i]
PayloadLens == {0, 1}
CraftedRecords ==
    {Encode32(p) \o Encode32(c) \o Payload(n) :
        p \in HeaderValues, c \in HeaderValues, n \in PayloadLens}
    \cup {[i \in 1..n |-> 0] : n \in {0, 7}}

\* the record the last vst3_get_state call produced, if it succeeded
ExportedRecords ==
    IF op.name = "vst3_get_state" /\ ret # -1
    THEN {SubSeq(buffer, 1, ret)}
    ELSE {}

MaxSizes == 7..(8 + 2 * MaxBlob)

InitCodec ==
    /\ InitInstance
    /\ processor = TRUE
    /\ controller \in BOOLEAN
    /\ InitHost
    /\ procState \in [Instances -> ProcBlobs]
    /\ ctrlState \in [Instances -> IF controller THEN CtrlBlobs ELSE {<< >>}]

\* a call with a null handle or a null buffer is tried with one choice of
\* the other arguments and of the plugin's answers; the outcome of an
\* overflowing size test is varied only for records whose sizes overflow
GetState ==
    \E h \in {NullHandle, InstA}, data_null \in BOOLEAN, max_size \in MaxSizes,
       compRes \in TResults, ctrlRes \in TResults :
        /\ (h = NullHandle \/ data_null) =>
              (max_size = 8 /\ compRes = kResultOk /\ ctrlRes = kResultOk)
        /\ vst3_get_state(h, data_null, max_size, compRes, ctrlRes)

SetState ==
    \E h \in {NullHandle, InstB}, data_null \in BOOLEAN,
       data \in CraftedRecords \cup ExportedRecords,
       compRes \in TResults, ctrlRes \in TResults, ub \in BOOLEAN :
        /\ (h = NullHandle \/ data_null) =>
              (data = << >> /\ compRes = kResultOk /\ ctrlRes = kResultOk)
        /\ ub => /\ h # NullHandle /\ ~data_null /\ Len(data) >= 8
                 /\ SumOverflows(Decode32(data, 0), Decode32(data, 4))
        /\ vst3_set_state(h, data_null, data, compRes, ctrlRes, ub)

NextCodec ==
    \/ GetState
    \/ SetState

SpecCodec == InitCodec /\ [][NextCodec]_vars

----------------------------------------------------------------------------
(* Editor embedder: vst3_open_editor, vst3_close_editor and                *)
(* vst3_attach_editor.  The host's calls on the view are built as a list   *)
(* of requests; ViewRun is the view receiving them in order.               *)

ViewCall(fn, arg, res) == [fn |-> fn, arg |-> arg, res |-> res]

\* IPlugView receiving the host's calls one after the other: each logged
\* call carries the frame the view held, whether it was attached, and
\* whether it had received attached() since the last removed(), when the
\* call arrived
RECURSIVE ViewRun(_, _, _, _)
ViewRun(reqs, vf, va, vn) ==
    IF reqs = << >>
    THEN [log |-> << >>, frame |-> vf, attached |-> va, notified |-> vn]
    ELSE LET r == Head(reqs)
             e == [obj |-> "view", fn |-> r.fn, arg |-> r.arg, res |-> r.res,
                   frame |-> vf, attached |-> va, notified |-> vn]
             vf2 == IF r.fn = "setFrame" THEN r.arg ELSE vf
             va2 == IF r.fn = "attached" THEN (va \/ r.res = kResultOk)
                    ELSE IF r.fn = "removed" THEN FALSE
                    ELSE va
             vn2 == IF r.fn = "attached" THEN TRUE
                    ELSE IF r.fn = "removed" THEN FALSE
                    ELSE vn
             rest == ViewRun(Tail(reqs), vf2, va2, vn2)
         IN [log |-> <<e>> \o rest.log, frame |-> rest.frame,
             attached |-> rest.attached, notified |-> rest.notified]

\* fault variant: open that does not test editor_open
AlreadyOpen_Unchecked == FALSE

\* if (instance->editor_open) in vst3_open_editor
AlreadyOpen == editor_open

vst3_open_editor(h, produced) ==
    LET o == [name |-> "vst3_open_editor", handle |-> h]
        createView == [obj |-> "controller", fn |-> "createView", res |-> produced]
    IN
    /\ UNCHANGED <<engineVars, codecVars, resizeVars, lifecycleVars, plug_frame,
                   parent_window>>
    /\ IF h = NullHandle
       THEN /\ ReturnError(o, << >>, FALSE, "Invalid handle")
            /\ UNCHANGED <<editor_view, editor_open, view_frame, view_attached,
                           view_notified>>
       ELSE IF ~controller
       THEN /\ ReturnError(o, << >>, FALSE, "No edit controller available")
            /\ UNCHANGED <<editor_view, editor_open, view_frame, view_attached,
                           view_notified>>
       ELSE IF AlreadyOpen
       THEN /\ Return(o, << >>, TRUE)
            /\ UNCHANGED <<editor_view, editor_open, view_frame, view_attached,
                           view_notified>>
       ELSE IF ~produced
       THEN /\ ReturnError(o, <<createView>>, FALSE, "Failed to create editor view")
            /\ UNCHANGED <<editor_view, editor_open, view_frame, view_attached,
                           view_notified>>
       ELSE /\ Return(o, <<createView>>, TRUE)
            /\ editor_view' = TRUE
            /\ editor_open' = TRUE
            /\ view_frame' = "none"
            /\ view_attached' = FALSE
            /\ view_notified' = FALSE

\* fault variant: close that releases the view without removed()
CloseCalls_NoRemoved(window) ==
    <<ViewCall("setFrame", "null", "n/a"), ViewCall("release", "n/a", "n/a")>>

\* the calls vst3_close_editor makes on a view it holds
CloseCalls(window) ==
    <<ViewCall("setFrame", "null", "n/a")>>
      \o (IF window # NullWindow THEN <<ViewCall("removed", "n/a", "n/a")>> ELSE << >>)
      \o <<ViewCall("release", "n/a", "n/a")>>

vst3_close_editor(h) ==
    LET o == [name |-> "vst3_close_editor", handle |-> h]
        run == ViewRun(CloseCalls(parent_window), view_frame, view_attached,
                       view_notified)
    IN
    /\ UNCHANGED <<engineVars, codecVars, resizeVars, lifecycleVars>>
    /\ IF h = NullHandle
       THEN /\ Return(o, << >>, "void")
            /\ UNCHANGED editorVars
       ELSE /\ Return(o, IF editor_view THEN run.log ELSE << >>, "void")
            /\ parent_window' = IF editor_view THEN NullWindow ELSE parent_window
            /\ editor_view' = FALSE
            /\ plug_frame' = FALSE
            /\ editor_open' = FALSE
            /\ view_frame' = "none"
            /\ view_attached' = FALSE
            /\ view_notified' = FALSE

\* fault variant: re-attach that does not detach from the previous parent
DetachCalls_None(window) == << >>

\* the calls that detach the view from its previous parent
DetachCalls(window) ==
    IF window # NullWindow
    THEN <<ViewCall("setFrame", "null", "n/a"), ViewCall("removed", "n/a", "n/a")>>
    ELSE << >>

\* view->setFrame(instance->plug_frame.get())
FrameArg(frame) == IF frame THEN "frame" ELSE "null"

\* if (!instance->plug_frame) instance->plug_frame = owned(new PlugFrame(..))
EnsurePlugFrame(frame) == IF ~frame THEN TRUE ELSE frame

\* fault variant: attached() is called before the frame is handed over
AttachCalls_AttachedFirst(frame, parent, res) ==
    <<ViewCall("attached", parent, res),
      ViewCall("setFrame", FrameArg(frame), "n/a")>>

\* setFrame with the instance's PlugFrame, then attached
AttachCalls(frame, parent, res) ==
    <<ViewCall("setFrame", FrameArg(frame), "n/a"),
      ViewCall("attached", parent, res)>>

\* fault variant: attach that does not test editor_open
EditorNotOpened_Unchecked == FALSE

\* if (!instance->editor_open) in vst3_attach_editor
EditorNotOpened == ~editor_open

\* fault variant: attach that ignores the answer of isPlatformTypeSupported
PlatformRefused_Ignored(supported) == FALSE

\* view->isPlatformTypeSupported(kPlatformTypeNSView) != kResultTrue
PlatformRefused(supported) == supported # kResultOk

\* fault variant: a failed attached() puts the previous window back
RecordedWindow_RestoredOnFailure(parent, res) ==
    IF res = kResultOk THEN parent ELSE parent_window

\* fault variant: the window is recorded whatever attached() answered
RecordedWindow_Always(parent, res) == parent

\* instance->parent_window after attached(): the parent if it returned
\* kResultOk; every other return and every exception leaves the null the
\* detach block or close left there
RecordedWindow(parent, res) == IF res = kResultOk THEN parent ELSE NullWindow

vst3_attach_editor(h, parent, supported, res) ==
    LET o == [name |-> "vst3_attach_editor", handle |-> h, parent |-> parent]
        support == <<ViewCall("isPlatformTypeSupported", "NSView", supported)>>
        refused == ViewRun(DetachCalls(parent_window) \o support,
                           view_frame, view_attached, view_notified)
        run == ViewRun(DetachCalls(parent_window) \o support
                         \o AttachCalls(EnsurePlugFrame(plug_frame), parent, res),
                       view_frame, view_attached, view_notified)
    IN
    /\ UNCHANGED <<engineVars, codecVars, resizeVars, lifecycleVars, editor_view,
                   editor_open>>
    /\ IF h = NullHandle
       THEN /\ ReturnError(o, << >>, FALSE, "Invalid handle (null)")
            /\ UNCHANGED <<plug_frame, parent_window, view_frame, view_attached,
                           view_notified>>
       ELSE IF parent = NullWindow
       THEN /\ ReturnError(o, << >>, FALSE, "Invalid parent (null)")
            /\ UNCHANGED <<plug_frame, parent_window, view_frame, view_attached,
                           view_notified>>
       ELSE IF EditorNotOpened
       THEN /\ ReturnError(o, << >>, FALSE,
                           "Editor not opened - call vst3_open_editor first")
            /\ UNCHANGED <<plug_frame, parent_window, view_frame, view_attached,
                           view_notified>>
       ELSE IF ~editor_view
       THEN /\ ReturnError(o, << >>, FALSE,
                           "No editor view available (editor_view is null)")
            /\ UNCHANGED <<plug_frame, parent_window, view_frame, view_attached,
                           view_notified>>
       ELSE IF PlatformRefused(supported)
       THEN /\ ReturnError(o, refused.log, FALSE,
                           "Plugin does not support NSView platform type")
            /\ parent_window' = NullWindow
            /\ view_frame' = refused.frame
            /\ view_attached' = refused.attached
            /\ view_notified' = refused.notified
            /\ UNCHANGED plug_frame
       ELSE /\ plug_frame' = EnsurePlugFrame(plug_frame)
            /\ view_frame' = run.frame
            /\ view_attached' = run.attached
            /\ view_notified' = run.notified
            /\ IF res = "std::exception"
               THEN /\ ReturnError(o, run.log, FALSE,
                                   "C++ exception in IPlugView->attached()")
                    /\ parent_window' = RecordedWindow(parent, res)
               ELSE IF res = "unknown exception"
               THEN /\ ReturnError(o, run.log, FALSE,
                                   "Unknown exception in IPlugView->attached()")
                    /\ parent_window' = RecordedWindow(parent, res)
               ELSE IF res # kResultOk
               THEN /\ ReturnError(o, run.log, FALSE,
                                   "Failed to attach editor to parent window")
                    /\ parent_window' = RecordedWindow(parent, res)
               ELSE /\ Return(o, run.log, TRUE)
                    /\ parent_window' = RecordedWindow(parent, res)

----------------------------------------------------------------------------
(* PlugFrame::resizeView, the resize notification the view sends to the    *)
(* callback object it was given by setFrame.  The call is cut at its calls *)
(* out (vst3_resize_nsview, getSize, onSize): between two steps the plugin *)
(* may send another notification from inside the call out.                 *)

kInvalidArgument == "kInvalidArgument"

\* fault variant: resizeView that does not test the guard
Reentrant_Unchecked == FALSE

\* if (resizeRecursionGuard_)
Reentrant == resizeRecursionGuard_

\* entry of resizeView, up to the return or to the first call out
resizeView(valid, newSize) ==
    LET o == [name |-> "PlugFrame::resizeView", step |-> "enter", valid |-> valid,
              newSize |-> newSize]
    IN
    /\ UNCHANGED <<engineVars, editorVars, codecVars, lifecycleVars>>
    /\ IF ~valid
       THEN /\ Return(o, << >>, kInvalidArgument)
            /\ UNCHANGED resizeVars
       ELSE IF Reentrant
       THEN /\ Return(o, << >>, kResultFalse)
            /\ resize_nested' = resize_nested + 1
            /\ UNCHANGED <<resizeRecursionGuard_, resize_pc, resize_req>>
       ELSE /\ Return(o, << >>, "pending")
            /\ resizeRecursionGuard_' = TRUE
            /\ resize_pc' = "vst3_resize_nsview"
            /\ resize_req' = newSize
            /\ resize_nested' = 0

\* if (instance_ && instance_->parent_window) vst3_resize_nsview(...)
resizeView_resize ==
    LET o == [name |-> "PlugFrame::resizeView", step |-> "resize"]
        resize == [obj |-> "host", fn |-> "vst3_resize_nsview",
                   window |-> parent_window, size |-> resize_req]
    IN
    /\ resize_pc = "vst3_resize_nsview"
    /\ UNCHANGED <<engineVars, editorVars, codecVars, lifecycleVars,
                   resizeRecursionGuard_, resize_req, resize_nested>>
    /\ Return(o, IF parent_window # NullWindow THEN <<resize>> ELSE << >>, "pending")
    /\ resize_pc' = "getSize"

\* fault variant: onSize is called whatever getSize answered
SizeDiffers_Always(res, current, requested) == TRUE

\* view->getSize(&r) == kResultTrue and r's width or height is not the
\* requested one
SizeDiffers(res, current, requested) == res = kResultOk /\ current # requested

\* if (view->getSize(&r) == kResultTrue) and the comparison with newSize
resizeView_getSize(res, current) ==
    LET o == [name |-> "PlugFrame::resizeView", step |-> "getSize"]
        getSize == [obj |-> "view", fn |-> "getSize", res |-> res, size |-> current]
    IN
    /\ resize_pc = "getSize"
    /\ UNCHANGED <<engineVars, editorVars, codecVars, lifecycleVars,
                   resizeRecursionGuard_, resize_req, resize_nested>>
    /\ Return(o, <<getSize>>, "pending")
    /\ resize_pc' = IF SizeDiffers(res, current, resize_req)
                    THEN "onSize" ELSE "return"

\* view->onSize(newSize)
resizeView_onSize ==
    LET o == [name |-> "PlugFrame::resizeView", step |-> "onSize"]
        onSize == [obj |-> "view", fn |-> "onSize", size |-> resize_req]
    IN
    /\ resize_pc = "onSize"
    /\ UNCHANGED <<engineVars, editorVars, codecVars, lifecycleVars,
                   resizeRecursionGuard_, resize_req, resize_nested>>
    /\ Return(o, <<onSize>>, "pending")
    /\ resize_pc' = "return"

\* resizeRecursionGuard_ = false; return kResultTrue;
resizeView_return ==
    LET o == [name |-> "PlugFrame::resizeView", step |-> "return"]
    IN
    /\ resize_pc = "return"
    /\ UNCHANGED <<engineVars, editorVars, codecVars, lifecycleVars, resize_nested>>
    /\ Return(o, << >>, kResultOk)
    /\ resizeRecursionGuard_' = FALSE
    /\ resize_pc' = "idle"
    /\ resize_req' = NoSize

----------------------------------------------------------------------------
(* Specification of the editor embedder on one loaded instance.            *)

AttachedResults == {kResultOk, kResultFalse, "std::exception", "unknown exception"}

InitEditor ==
    /\ InitInstance
    /\ processor = TRUE
    /\ controller \in BOOLEAN
    /\ InitHost
    /\ procState = [i \in Instances |-> << >>]
    /\ ctrlState = [i \in Instances |-> << >>]

\* sizes the view asks for and reports
Sizes == {<<640, 480>>, <<800, 600>>}

\* the caller makes its API calls between resize notifications, not while
\* one is being serviced
NoResizeInProgress == resize_pc = "idle"

OpenEditor ==
    \E h \in Handles, produced \in BOOLEAN :
        NoResizeInProgress /\ vst3_open_editor(h, produced)

CloseEditor == \E h \in Handles : NoResizeInProgress /\ vst3_close_editor(h)

AttachEditor ==
    \E h \in Handles, parent \in Windows \cup {NullWindow}, supported \in TResults,
       res \in AttachedResults :
        NoResizeInProgress /\ vst3_attach_editor(h, parent, supported, res)

\* the view notifies the callback object it holds; while a notification is
\* being serviced it sends at most MaxNested further ones
ResizeView ==
    \E valid \in BOOLEAN, newSize \in Sizes :
        /\ editor_view /\ plug_frame /\ view_frame = "frame"
        /\ resize_pc # "idle" => resize_nested < MaxNested
        /\ resizeView(valid, newSize)

ResizeContainer == resizeView_resize

ResizeGetSize == \E res \in TResults, current \in Sizes : resizeView_getSize(res, current)

ResizeOnSize == resizeView_onSize

ResizeReturn == resizeView_return

NextEditor ==
    \/ OpenEditor
    \/ CloseEditor
    \/ AttachEditor
    \/ ResizeView
    \/ ResizeContainer
    \/ ResizeGetSize
    \/ ResizeOnSize
    \/ ResizeReturn

SpecEditor == InitEditor /\ [][NextEditor]_vars

----------------------------------------------------------------------------
(* Host and instance lifecycle: vst3_host_init, vst3_host_shutdown,        *)
(* vst3_load_plugin and vst3_unload_plugin.  A module is the list of class *)
(* descriptors of its factory; an audio-effect descriptor carries what the *)
(* plugin answers when that class is used.  queryInterface calls are not   *)
(* logged; what they find is the descriptor's hasProcessor, compCP, ctrlCP.*)

kVstAudioEffectClass == "Audio Module Class"
kVstComponentControllerClass == "Component Controller Class"

vst3_host_init ==
    LET o == [name |-> "vst3_host_init"]
    IN
    /\ UNCHANGED <<engineVars, editorVars, resizeVars, codecVars, pluginVars>>
    /\ Return(o, << >>, TRUE)
    /\ g_host_app' = TRUE
    /\ IF g_component_handler = NullHandler
       THEN /\ g_component_handler' = handlers_created + 1
            /\ handlers_created' = handlers_created + 1
       ELSE UNCHANGED <<g_component_handler, handlers_created>>

vst3_host_shutdown ==
    LET o == [name |-> "vst3_host_shutdown"]
    IN
    /\ UNCHANGED <<engineVars, editorVars, resizeVars, codecVars, pluginVars,
                   handlers_created>>
    /\ Returned(o, << >>, "void")
    /\ g_last_error' = ""
    /\ error_recorded' = FALSE
    /\ UNCHANGED audio_thread
    /\ g_component_handler' = NullHandler
    /\ g_host_app' = FALSE

\* fault variant: the loop over the class descriptors keeps the last
\* audio-effect class
FirstAudioEffect_Last(classInfos) ==
    LET S == {i \in DOMAIN classInfos :
                 classInfos[i].category = kVstAudioEffectClass}
    IN IF S = {} THEN 0 ELSE CHOOSE i \in S : \A j \in S : j <= i

\* for (class_info : factory.classInfos()) if (category == kVstAudioEffectClass):
\* the index of the class the loop body runs for, 0 if there is none
FirstAudioEffect(classInfos) ==
    LET S == {i \in DOMAIN classInfos :
                 classInfos[i].category = kVstAudioEffectClass}
    IN IF S = {} THEN 0 ELSE CHOOSE i \in S : \A j \in S : i <= j

\* fault variant: load that never installs the handler
HandlerCalls_None(handler) == << >>

\* if (g_component_handler) controller->setComponentHandler(g_component_handler)
HandlerCalls(handler) ==
    IF handler # NullHandler
    THEN <<[obj |-> "controller", fn |-> "setComponentHandler", handler |-> handler]>>
    ELSE << >>

\* fault variant: connect as soon as one side is a connection point
ConnectCalls_Either(componentCP, controllerCP) ==
    IF componentCP \/ controllerCP
    THEN <<[obj |-> "component", fn |-> "connect", other |-> "controller"],
           [obj |-> "controller", fn |-> "connect", other |-> "component"]>>
    ELSE << >>

\* if (componentCP && controllerCP) { connect; connect; }
ConnectCalls(componentCP, controllerCP) ==
    IF componentCP /\ controllerCP
    THEN <<[obj |-> "component", fn |-> "connect", other |-> "controller"],
           [obj |-> "controller", fn |-> "connect", other |-> "component"]>>
    ELSE << >>

\* the fields of the instance once it no longer exists (or does not yet)
NoInstanceAfter ==
    /\ loaded' = FALSE
    /\ processor' = FALSE
    /\ controller' = FALSE
    /\ initialized' = FALSE
    /\ active' = FALSE
    /\ max_block_size' = DefaultBlockSize
    /\ midi_events' = << >>
    /\ process_failed' = FALSE
    /\ editor_view' = FALSE
    /\ plug_frame' = FALSE
    /\ parent_window' = NullWindow
    /\ editor_open' = FALSE
    /\ compCP' = FALSE
    /\ ctrlCP' = FALSE
    /\ connected' = FALSE
    /\ component_handler' = NullHandler

vst3_load_plugin(path_null, moduleRes, classInfos) ==
    LET o == [name |-> "vst3_load_plugin", path_null |-> path_null,
              module |-> moduleRes, classInfos |-> classInfos]
        k == FirstAudioEffect(classInfos)
        c == classInfos[k]
        create == [obj |-> "factory", fn |-> "createInstance<IComponent>",
                   class |-> k, res |-> c.creatable]
        init == [obj |-> "component", fn |-> "initialize", class |-> k,
                 res |-> c.initRes]
        getCid == [obj |-> "component", fn |-> "getControllerClassId",
                   res |-> c.cidRes]
        createCtrl == [obj |-> "factory", fn |-> "createInstance<IEditController>",
                       res |-> c.ctrlCreatable]
        ctrlInit == [obj |-> "controller", fn |-> "initialize"]
        hasCtrl == c.cidRes = kResultOk /\ c.ctrlCreatable
        handler == HandlerCalls(g_component_handler)
        connect == ConnectCalls(c.compCP, c.ctrlCP)
        failed(cs, msg) == /\ ReturnError(o, cs, NullHandle, msg)
                           /\ NoInstanceAfter
    IN
    /\ UNCHANGED <<hostVars, codecVars, resizeVars, view_frame, view_attached,
                   view_notified>>
    /\ IF path_null
       THEN failed(<< >>, "Invalid file path")
       ELSE IF ~g_host_app
       THEN failed(<< >>, "Host not initialized. Call vst3_host_init() first")
       ELSE IF moduleRes = "std::exception"
       THEN failed(<< >>, "Load error: ")
       ELSE IF moduleRes # "module"
       THEN failed(<< >>, "Failed to load module: ")
       ELSE IF k = 0
       THEN failed(<< >>, "No audio effect class found in plugin")
       ELSE IF ~c.creatable
       THEN failed(<<create>>, "Failed to create component instance")
       ELSE IF c.initRes # kResultOk
       THEN failed(<<create, init>>, "Failed to initialize component")
       ELSE /\ Return(o,
                      <<create, init, getCid>>
                        \o (IF c.cidRes = kResultOk THEN <<createCtrl>> ELSE << >>)
                        \o (IF hasCtrl
                            THEN <<ctrlInit>> \o handler \o connect
                            ELSE << >>),
                      InstA)
            /\ loaded' = TRUE
            /\ processor' = c.hasProcessor
            /\ controller' = hasCtrl
            /\ initialized' = FALSE
            /\ active' = FALSE
            /\ max_block_size' = DefaultBlockSize
            /\ midi_events' = << >>
            /\ process_failed' = FALSE
            /\ editor_view' = FALSE
            /\ plug_frame' = FALSE
            /\ parent_window' = NullWindow
            /\ editor_open' = FALSE
            /\ compCP' = c.compCP
            /\ ctrlCP' = (hasCtrl /\ c.ctrlCP)
            /\ connected' = (hasCtrl /\ connect # << >>)
            /\ component_handler' = IF hasCtrl /\ handler # << >>
                                    THEN g_component_handler ELSE NullHandler

\* fault variant: unload that terminates before it disconnects
UnloadCalls_TerminateFirst(isActive, hasCtrl, componentCP, controllerCP, hasView) ==
    (IF isActive
     THEN <<[obj |-> "processor", fn |-> "setProcessing", state |-> FALSE]>>
     ELSE << >>)
    \o (IF hasCtrl THEN <<[obj |-> "controller", fn |-> "terminate"]>> ELSE << >>)
    \o <<[obj |-> "component", fn |-> "terminate"]>>
    \o (IF hasCtrl /\ componentCP /\ controllerCP
        THEN <<[obj |-> "component", fn |-> "disconnect", other |-> "controller"],
               [obj |-> "controller", fn |-> "disconnect", other |-> "component"]>>
        ELSE << >>)
    \o (IF hasView THEN <<[obj |-> "view", fn |-> "release"]>> ELSE << >>)

\* the calls vst3_unload_plugin makes, the last one by delete instance
UnloadCalls(isActive, hasCtrl, componentCP, controllerCP, hasView) ==
    (IF isActive
     THEN <<[obj |-> "processor", fn |-> "setProcessing", state |-> FALSE]>>
     ELSE << >>)
    \o (IF hasCtrl /\ componentCP /\ controllerCP
        THEN <<[obj |-> "component", fn |-> "disconnect", other |-> "controller"],
               [obj |-> "controller", fn |-> "disconnect", other |-> "component"]>>
        ELSE << >>)
    \o (IF hasCtrl THEN <<[obj |-> "controller", fn |-> "terminate"]>> ELSE << >>)
    \o <<[obj |-> "component", fn |-> "terminate"]>>
    \o (IF hasView THEN <<[obj |-> "view", fn |-> "release"]>> ELSE << >>)

vst3_unload_plugin(h) ==
    LET o == [name |-> "vst3_unload_plugin", handle |-> h]
    IN
    /\ UNCHANGED <<hostVars, codecVars, resizeVars, view_frame, view_attached,
                   view_notified>>
    /\ IF h = NullHandle
       THEN /\ Return(o, << >>, "void")
            /\ UNCHANGED <<engineVars, pluginVars, editor_view, plug_frame,
                           parent_window, editor_open>>
       ELSE /\ Return(o, UnloadCalls(active /\ processor, controller, compCP,
                                     ctrlCP, editor_view), "void")
            /\ NoInstanceAfter

----------------------------------------------------------------------------
(* Parameters and vst3_has_editor: the entry points that only ask the      *)
(* controller.  A ParamValue is modelled by the integers 0 (0.0) and 1     *)
(* (1.0).                                                                  *)

\* fault variant: entry points that go on without a controller
NoController_Unchecked == FALSE

\* !instance->controller
NoController == ~controller

\* return of an entry point that changes nothing of the instance
QueryReturn(o, c, r) ==
    /\ Return(o, c, r)
    /\ UNCHANGED <<engineVars, editorVars, resizeVars, codecVars, lifecycleVars>>

vst3_get_parameter_count(h, count) ==
    LET o == [name |-> "vst3_get_parameter_count", handle |-> h]
        getCount == [obj |-> "controller", fn |-> "getParameterCount",
                     count |-> count]
    IN
    IF h = NullHandle THEN QueryReturn(o, << >>, 0)
    ELSE IF NoController THEN QueryReturn(o, << >>, 0)
    ELSE QueryReturn(o, <<getCount>>, count)

vst3_get_parameter_info(h, index, info_null, res) ==
    LET o == [name |-> "vst3_get_parameter_info", handle |-> h, index |-> index,
              info_null |-> info_null]
        getInfo == [obj |-> "controller", fn |-> "getParameterInfo",
                    index |-> index, res |-> res]
    IN
    IF h = NullHandle \/ info_null THEN QueryReturn(o, << >>, FALSE)
    ELSE IF NoController THEN QueryReturn(o, << >>, FALSE)
    ELSE IF res # kResultOk THEN QueryReturn(o, <<getInfo>>, FALSE)
    ELSE QueryReturn(o, <<getInfo>>, TRUE)

vst3_get_parameter_value(h, param_id, value) ==
    LET o == [name |-> "vst3_get_parameter_value", handle |-> h,
              param_id |-> param_id]
        getParam == [obj |-> "controller", fn |-> "getParamNormalized",
                     id |-> param_id, value |-> value]
    IN
    IF h = NullHandle THEN QueryReturn(o, << >>, 0)
    ELSE IF NoController THEN QueryReturn(o, << >>, 0)
    ELSE QueryReturn(o, <<getParam>>, value)

vst3_set_parameter_value(h, param_id, value, res) ==
    LET o == [name |-> "vst3_set_parameter_value", handle |-> h,
              param_id |-> param_id, value |-> value]
        setParam == [obj |-> "controller", fn |-> "setParamNormalized",
                     id |-> param_id, value |-> value, res |-> res]
    IN
    IF h = NullHandle THEN QueryReturn(o, << >>, FALSE)
    ELSE IF NoController THEN QueryReturn(o, << >>, FALSE)
    ELSE QueryReturn(o, <<setParam>>, res = kResultOk)

\* the view created for the test is released at once and not kept
vst3_has_editor(h, produced) ==
    LET o == [name |-> "vst3_has_editor", handle |-> h]
        createView == [obj |-> "controller", fn |-> "createView", res |-> produced]
        release == [obj |-> "view", fn |-> "release"]
    IN
    IF h = NullHandle THEN QueryReturn(o, << >>, FALSE)
    ELSE IF NoController THEN QueryReturn(o, << >>, FALSE)
    ELSE IF produced THEN QueryReturn(o, <<createView, release>>, TRUE)
    ELSE QueryReturn(o, <<createView>>, FALSE)

----------------------------------------------------------------------------
(* ComponentHandler: the callbacks a plugin's controller makes on the      *)
(* handler installed at load.  They log to stderr and return.              *)

\* ParamID is a uint32, ParamValue a double in 0..1, the flags an int32
ParamIDs == {0, 2147483647}
ParamValues == {0, 1}
RestartFlags == {-1, 1}

\* return of a handler method: nothing of the host or the instance changes
HandlerReturn(o, r) ==
    /\ op' = o
    /\ calls' = << >>
    /\ ret' = r
    /\ UNCHANGED <<g_last_error, engineVars, editorVars, resizeVars, codecVars,
                   lifecycleVars, audio_thread, happy_path, error_recorded>>

beginEdit(id) ==
    HandlerReturn([name |-> "ComponentHandler::beginEdit", id |-> id], kResultOk)

performEdit(id, valueNormalized) ==
    HandlerReturn([name |-> "ComponentHandler::performEdit", id |-> id,
                   valueNormalized |-> valueNormalized], kResultOk)

endEdit(id) ==
    HandlerReturn([name |-> "ComponentHandler::endEdit", id |-> id], kResultOk)

\* fault variant: a handler that restarts the component by deactivating it
restartComponent_Deactivating(flags) ==
    /\ op' = [name |-> "ComponentHandler::restartComponent", flags |-> flags]
    /\ calls' = << >>
    /\ ret' = kResultOk
    /\ active' = FALSE
    /\ UNCHANGED <<g_last_error, processor, controller, initialized,
                   max_block_size, midi_events, process_failed, editorVars,
                   resizeVars, codecVars, lifecycleVars, audio_thread, happy_path, error_recorded>>

restartComponent(flags) ==
    HandlerReturn([name |-> "ComponentHandler::restartComponent", flags |-> flags],
                  kResultOk)

----------------------------------------------------------------------------
(* Specification of the lifecycle: the process starts with no host context *)
(* and no instance; one instance exists at a time.                         *)

\* an unused answer of a descriptor has its one default value
Canonical(d) ==
    /\ d.category # kVstAudioEffectClass => ~d.creatable
    /\ ~d.creatable => d.initRes # kResultOk
    /\ d.initRes # kResultOk => ~d.hasProcessor /\ d.cidRes # kResultOk
    /\ d.cidRes # kResultOk => ~d.ctrlCreatable
    /\ ~d.ctrlCreatable => ~d.compCP /\ ~d.ctrlCP

Descriptors ==
    {d \in [category : {kVstAudioEffectClass, kVstComponentControllerClass},
            creatable : BOOLEAN, initRes : TResults, hasProcessor : BOOLEAN,
            cidRes : TResults, ctrlCreatable : BOOLEAN, compCP : BOOLEAN,
            ctrlCP : BOOLEAN] : Canonical(d)}

\* the descriptors tried after the first audio-effect class of a list, which
\* the loop never reaches: a controller class, and an audio-effect class
\* that would load with a controller and a connection
LaterDescriptors ==
    {d \in Descriptors :
        \/ d.category = kVstComponentControllerClass
        \/ d.hasProcessor /\ d.ctrlCreatable /\ d.compCP /\ d.ctrlCP}

\* the class lists of the modules explored: up to MaxClasses descriptors
ClassInfoLists ==
    UNION {{cs \in [1..n -> Descriptors] :
               \A i \in 1..n :
                   (\E j \in 1..(i - 1) : cs[j].category = kVstAudioEffectClass)
                       => cs[i] \in LaterDescriptors}
           : n \in 0..MaxClasses}

\* outcomes of VST3::Hosting::Module::create
ModuleResults == {"module", "null", "std::exception"}

InitLifecycle ==
    /\ g_last_error = ""
    /\ audio_thread = IdleAudio
    /\ error_recorded = FALSE
    /\ happy_path = 0
    /\ g_host_app = FALSE
    /\ g_component_handler = NullHandler
    /\ handlers_created = 0
    /\ loaded = FALSE
    /\ processor = FALSE
    /\ controller = FALSE
    /\ initialized = FALSE
    /\ active = FALSE
    /\ max_block_size = DefaultBlockSize
    /\ midi_events = << >>
    /\ process_failed = FALSE
    /\ editor_view = FALSE
    /\ plug_frame = FALSE
    /\ parent_window = NullWindow
    /\ editor_open = FALSE
    /\ view_frame = "none"
    /\ view_attached = FALSE
    /\ view_notified = FALSE
    /\ resizeRecursionGuard_ = FALSE
    /\ resize_pc = "idle"
    /\ resize_req = NoSize
    /\ resize_nested = 0
    /\ compCP = FALSE
    /\ ctrlCP = FALSE
    /\ connected = FALSE
    /\ component_handler = NullHandler
    /\ procState = [i \in Instances |-> << >>]
    /\ ctrlState = [i \in Instances |-> << >>]
    /\ buffer = << >>
    /\ op = [name |-> "main"]
    /\ calls = << >>
    /\ ret = "void"

\* a new handler object is created at most MaxHandlers times
\* the controller calls back into the handler it was given at load
HandlerCallback ==
    /\ loaded
    /\ component_handler # NullHandler
    /\ \/ \E id \in ParamIDs : beginEdit(id)
       \/ \E id \in ParamIDs, v \in ParamValues : performEdit(id, v)
       \/ \E id \in ParamIDs : endEdit(id)
       \/ \E flags \in RestartFlags : restartComponent(flags)

HostInit ==
    /\ g_component_handler = NullHandler => handlers_created < MaxHandlers
    /\ vst3_host_init

HostShutdown == vst3_host_shutdown

\* a load with a null path or a module that does not load is tried with the
\* empty class list
LoadPlugin ==
    \E path_null \in BOOLEAN, moduleRes \in ModuleResults, classInfos \in ClassInfoLists :
        /\ ~loaded
        /\ path_null => moduleRes = "module"
        /\ (path_null \/ moduleRes # "module") => classInfos = << >>
        /\ vst3_load_plugin(path_null, moduleRes, classInfos)

UnloadPlugin == \E h \in Handles : vst3_unload_plugin(h)

NextLifecycle ==
    \/ HostInit
    \/ HostShutdown
    \/ LoadPlugin
    \/ UnloadPlugin
    \/ Initialize
    \/ Activate
    \/ Deactivate
    \/ ProcessAudio
    \/ HandlerCallback

SpecLifecycle == InitLifecycle /\ [][NextLifecycle]_vars

----------------------------------------------------------------------------
(* Specification of the controller's entry points: instances are loaded    *)
(* with and without a controller, asked for their parameters and their     *)
(* editor, and unloaded.                                                   *)

ParamCounts == {3}
ParamIndexes == {0}

GetParameterCount ==
    \E h \in Handles, count \in ParamCounts : vst3_get_parameter_count(h, count)

GetParameterInfo ==
    \E h \in Handles, index \in ParamIndexes, info_null \in BOOLEAN,
       res \in TResults :
        vst3_get_parameter_info(h, index, info_null, res)

GetParameterValue ==
    \E h \in Handles, id \in ParamIDs, value \in ParamValues :
        vst3_get_parameter_value(h, id, value)

SetParameterValue ==
    \E h \in Handles, id \in ParamIDs, value \in ParamValues, res \in TResults :
        vst3_set_parameter_value(h, id, value, res)

HasEditor == \E h \in Handles, produced \in BOOLEAN : vst3_has_editor(h, produced)

NextController ==
    \/ HostInit
    \/ LoadPlugin
    \/ UnloadPlugin
    \/ GetParameterCount
    \/ GetParameterInfo
    \/ GetParameterValue
    \/ SetParameterValue
    \/ HasEditor
    \/ OpenEditor
    \/ AttachEditor
    \/ CloseEditor

SpecController == InitLifecycle /\ [][NextController]_vars

----------------------------------------------------------------------------
(* Properties of the processing engine and the event queue.                *)

IsOp(o, n) == o.name = n

ProcessCalls(c) == {i \in DOMAIN c : c[i].obj = "processor" /\ c[i].fn = "process"}

\* C2: the plugin's process entry point is invoked only on an instance that
\* is initialized and active.  A process call on an instance that is not
\* active or has no processor fails and calls nothing; an accepted call
\* invokes process exactly once; activate succeeds only on an initialized
\* instance, so an active instance is always an initialized one.
C2_ProcessStep ==
    /\ IsOp(op', "vst3_process_audio") /\ op'.handle # NullHandle =>
          IF active /\ processor
          THEN /\ initialized
               /\ Len(calls') = 1
               /\ Cardinality(ProcessCalls(calls')) = 1
          ELSE /\ calls' = << >>
               /\ ret' = FALSE
    /\ IsOp(op', "vst3_activate_plugin") /\ ret' = TRUE => initialized /\ processor
    /\ active' => initialized' /\ processor'

C2_ProcessOnlyWhenActive == [][C2_ProcessStep]_vars

\* C2 witness: an accepted process call on an active, initialized instance
C2_Witness ==
    /\ IsOp(op, "vst3_process_audio")
    /\ Cardinality(ProcessCalls(calls)) = 1
    /\ active /\ initialized

\* the event the last enqueue call asked to store
EnqueuedEvent(o) ==
    MakeEvent(o.event_type, o.channel, o.data1, o.data2, o.sample_offset)

\* C3: a note-on / note-off enqueue on an instance with a processor succeeds
\* and appends its event while the queue holds fewer than 128 events; at 128
\* it fails and leaves the queue as it was; the queue never exceeds 128.
C3_EnqueueStep ==
    /\ Len(midi_events') <= 128
    /\ ( /\ IsOp(op', "vst3_process_midi_event")
         /\ op'.handle # NullHandle
         /\ processor
         /\ op'.event_type \in {0, 1} ) =>
          IF Len(midi_events) < 128
          THEN /\ ret' = TRUE
               /\ midi_events' = Append(midi_events, EnqueuedEvent(op'))
          ELSE /\ ret' = FALSE
               /\ g_last_error' = "Failed to queue MIDI event"
               /\ midi_events' = midi_events
               /\ Len(midi_events') = 128

C3_QueueCapacity == [][C3_EnqueueStep]_vars

\* C3 witness: the 129th enqueue was refused with the queue at 128 events
C3_Witness ==
    /\ IsOp(op, "vst3_process_midi_event")
    /\ ret = FALSE
    /\ g_last_error = "Failed to queue MIDI event"
    /\ Len(midi_events) = 128

\* C4 as stated: after any process call on a live instance the queue is
\* empty, also when the call was refused because the instance is not active.
C4_QueueEmptyAfterAnyProcess ==
    IsOp(op, "vst3_process_audio") /\ op.handle # NullHandle => Len(midi_events) = 0

\* C4 amended: a process call on an active instance with a processor leaves
\* the queue empty whatever the plugin returned and however many events were
\* queued; a call refused because the instance is not active leaves the
\* queue as it was.
C4_ProcessStep ==
    IsOp(op', "vst3_process_audio") /\ op'.handle # NullHandle =>
        IF active /\ processor
        THEN Len(midi_events') = 0
        ELSE midi_events' = midi_events

C4_QueueEmptyAfterAcceptedProcess == [][C4_ProcessStep]_vars

\* C4 witness: a process call that failed in the plugin was handed a full
\* queue of 128 events and left the queue empty
C4_Witness ==
    /\ IsOp(op, "vst3_process_audio")
    /\ ret = FALSE
    /\ Len(calls) = 1
    /\ Len(calls[1].inputEvents.events) = 128
    /\ Len(midi_events) = 0

----------------------------------------------------------------------------
(* Properties of the state codec.  The record layout is the documented     *)
(* one: two 4-byte unsigned length fields, lowest byte first, then the     *)
(* processor blob, then the controller blob.                               *)

\* the four bytes of an unsigned length n < 2^31
U32Bytes(n) == <<n % 256, (n \div 256) % 256, (n \div 65536) % 256, n \div 16777216>>

\* a header field whose top byte is >= 128 declares a length >= 2^31
FieldHuge(data, at) == data[at + 4] >= 128
FieldValue(data, at) ==
    data[at + 1] + 256 * data[at + 2] + 65536 * data[at + 3] + 16777216 * data[at + 4]

\* 8 + processorLength + controllerLength <= len(data), without wrap-around
DeclaredFits(data) ==
    /\ Len(data) >= 8
    /\ ~FieldHuge(data, 0)
    /\ ~FieldHuge(data, 4)
    /\ FieldValue(data, 0) <= Len(data) - 8
    /\ FieldValue(data, 4) <= Len(data) - 8 - FieldValue(data, 0)

ImportCall(o) == IsOp(o, "vst3_set_state") /\ o.handle # NullHandle /\ ~o.data_null

\* C5 as stated: a record shorter than 8 bytes, or whose declared lengths
\* exceed the supplied length, is refused and no setState or
\* setComponentState call is made.
C5_MalformedRecordRefused ==
    ImportCall(op) /\ ~DeclaredFits(op.data) => ret = FALSE /\ calls = << >>

\* C6 as stated: a record is accepted only if its declared lengths, read as
\* unsigned 32-bit values and summed without wrap-around, fit the buffer, so
\* every blob handed to the plugin lies inside the buffer.
C6_AcceptedRecordFits ==
    ImportCall(op) /\ ret = TRUE =>
        /\ DeclaredFits(op.data)
        /\ \A i \in DOMAIN calls : calls[i].inBounds

\* the record documented for a plugin state: lengths, processor blob,
\* controller blob
RecordOf(pblob, cblob) ==
    U32Bytes(Len(pblob)) \o U32Bytes(Len(cblob)) \o pblob \o cblob

PluginAccepted(c) ==
    \A i \in DOMAIN c : c[i].fn = "setState" => c[i].res = kResultOk

\* C7 as stated: importing the record exported from InstA into InstB, with
\* the plugin accepting its own blobs, succeeds and leaves InstB's processor
\* and controller state equal to InstA's, empty blobs included.
C7_RoundTrip ==
    ( /\ ImportCall(op)
      /\ op.handle = InstB
      /\ op.data = RecordOf(procState[InstA], ctrlState[InstA])
      /\ PluginAccepted(calls) ) =>
        /\ ret = TRUE
        /\ procState[InstB] = procState[InstA]
        /\ controller => ctrlState[InstB] = ctrlState[InstA]

ExportCall(o) == IsOp(o, "vst3_get_state") /\ o.handle # NullHandle /\ ~o.data_null

\* C8: a successful export returns 8 + p + c and leaves in the buffer the
\* two length fields, the p processor bytes and the c controller bytes
\* (c = 0 without a controller or when its getState fails); an export whose
\* component getState fails or whose buffer is smaller than the total
\* returns -1 and writes nothing.
C8_ExportLayout ==
    ExportCall(op) =>
        LET pblob == procState[op.handle]
            compOk == Len(calls) >= 1 /\ calls[1].res = kResultOk
            ctrlOk == controller /\ Len(calls) >= 2 /\ calls[2].res = kResultOk
            cblob == IF ctrlOk THEN ctrlState[op.handle] ELSE << >>
            total == 8 + Len(pblob) + Len(cblob)
        IN
        IF compOk /\ total <= op.max_size
        THEN /\ ret = total
             /\ Len(buffer) = op.max_size
             /\ SubSeq(buffer, 1, total) = RecordOf(pblob, cblob)
             /\ \A k \in (total + 1)..Len(buffer) : buffer[k] = Untouched
        ELSE /\ ret = -1
             /\ \A k \in DOMAIN buffer : buffer[k] = Untouched

\* C8 witness: an export that wrote a processor and a controller blob
C8_Witness ==
    /\ ExportCall(op)
    /\ ret = 8 + Len(procState[InstA]) + Len(ctrlState[InstA])
    /\ Len(procState[InstA]) > 0
    /\ Len(ctrlState[InstA]) > 0

\* C9 as stated: for a valid record the calls are component setState(processor
\* blob), then controller setComponentState(the same blob), then controller
\* setState(controller blob); a rejected processor blob fails the import
\* with no call on the controller; a rejected controller blob does not.
C9_ImportCallOrder ==
    ImportCall(op) /\ DeclaredFits(op.data) =>
        LET p == FieldValue(op.data, 0)
            c == FieldValue(op.data, 4)
            pblob == SubSeq(op.data, 9, 8 + p)
            cblob == SubSeq(op.data, 9 + p, 8 + p + c)
        IN
        /\ Len(calls) >= 1
        /\ calls[1].obj = "component" /\ calls[1].fn = "setState"
        /\ calls[1].blob = pblob
        /\ IF calls[1].res # kResultOk
           THEN ret = FALSE /\ Len(calls) = 1
           ELSE /\ ret = TRUE
                /\ IF controller
                   THEN /\ Len(calls) = 3
                        /\ calls[2].obj = "controller"
                        /\ calls[2].fn = "setComponentState"
                        /\ calls[2].blob = pblob
                        /\ calls[3].obj = "controller" /\ calls[3].fn = "setState"
                        /\ calls[3].blob = cblob
                   ELSE Len(calls) = 1

----------------------------------------------------------------------------
(* Properties of the editor embedder.                                      *)

ViewCalls(c, fn) == {i \in DOMAIN c : c[i].obj = "view" /\ c[i].fn = fn}

\* C1: whenever a view receives attached(), the last setFrame it received
\* passed the resize-callback object: never null, never no setFrame at all.
C1_SetFrameBeforeAttach ==
    \A i \in ViewCalls(calls, "attached") : calls[i].frame = "frame"

\* C1 witness: a re-attach, where the view got setFrame(null) and removed()
\* and then attached() again
C1_Witness ==
    /\ IsOp(op, "vst3_attach_editor")
    /\ ViewCalls(calls, "removed") # {}
    /\ ViewCalls(calls, "attached") # {}

Fns(c) == [i \in DOMAIN c |-> c[i].fn]

CloseCall(o) == IsOp(o, "vst3_close_editor") /\ o.handle # NullHandle

\* C10: close ends in Closed from every editor state, with no view, window
\* handle or resize callback left; a held view receives setFrame(null), then
\* removed() exactly if it was attached, then is released; a second close
\* right after makes no call and changes nothing.
C10_CloseStep ==
    CloseCall(op') =>
        /\ ~editor_open' /\ ~editor_view' /\ ~plug_frame'
        /\ parent_window' = NullWindow
        /\ Fns(calls') = IF ~editor_view THEN << >>
                         ELSE IF view_attached
                         THEN <<"setFrame", "removed", "release">>
                         ELSE <<"setFrame", "release">>
        /\ \A i \in ViewCalls(calls', "setFrame") : calls'[i].arg = "null"
        /\ CloseCall(op) => calls' = << >> /\ UNCHANGED editorVars

C10_CloseEndsClosed == [][C10_CloseStep]_vars

\* C10 witness: an attached editor was closed
C10_Witness ==
    /\ CloseCall(op)
    /\ Fns(calls) = <<"setFrame", "removed", "release">>
    /\ ~editor_open

AttachCall(o) == IsOp(o, "vst3_attach_editor") /\ o.handle # NullHandle

\* C11: attach on an instance whose editor is Closed fails with a diagnostic
\* (the one for a null parent if the parent is null, else the one for an
\* editor that was not opened), makes no call on a view, creates no resize
\* callback, and leaves the instance Closed with no view and no window.
C11_AttachStep ==
    AttachCall(op') /\ ~editor_open =>
        /\ ret' = FALSE
        /\ g_last_error' = IF op'.parent = NullWindow
                           THEN "Invalid parent (null)"
                           ELSE "Editor not opened - call vst3_open_editor first"
        /\ calls' = << >>
        /\ ~plug_frame'
        /\ ~editor_open' /\ ~editor_view'
        /\ parent_window' = NullWindow

C11_AttachOnClosedRefused == [][C11_AttachStep]_vars

\* C11 witness: attach with a window was refused on a Closed editor
C11_Witness ==
    /\ AttachCall(op)
    /\ op.parent # NullWindow
    /\ ret = FALSE
    /\ g_last_error = "Editor not opened - call vst3_open_editor first"
    /\ ~editor_open

OpenCall(o) == IsOp(o, "vst3_open_editor") /\ o.handle # NullHandle

\* C12: open on a Closed editor asks the controller for a view and ends Open
\* holding it exactly if there is a controller and a view is produced;
\* otherwise it fails and the editor stays Closed with no view.  Open on an
\* Open or Attached editor returns success, requests no view and leaves the
\* view, the window handle and the resize callback as they were.
C12_OpenStep ==
    OpenCall(op') =>
        IF editor_open
        THEN /\ ret' = TRUE
             /\ calls' = << >>
             /\ UNCHANGED <<editor_view, editor_open, parent_window, plug_frame,
                            view_frame, view_attached>>
        ELSE IF controller
        THEN /\ Len(calls') = 1
             /\ calls'[1].obj = "controller" /\ calls'[1].fn = "createView"
             /\ IF calls'[1].res
                THEN ret' = TRUE /\ editor_open' /\ editor_view'
                ELSE ret' = FALSE /\ ~editor_open' /\ ~editor_view'
        ELSE /\ calls' = << >>
             /\ ret' = FALSE /\ ~editor_open' /\ ~editor_view'

C12_OpenOnlyFromClosed == [][C12_OpenStep]_vars

\* C12 witness: open on an Attached editor returned success without a call
C12_Witness ==
    /\ OpenCall(op)
    /\ ret = TRUE
    /\ calls = << >>
    /\ parent_window # NullWindow
    /\ view_attached

\* the attach sequencing, counting either every attached() the view has
\* received since its last removed() (any) or only a successful one
AttachSequencing(any) ==
    /\ AttachCall(op') /\ op'.parent # NullWindow /\ parent_window # NullWindow =>
          /\ Len(calls') >= 3
          /\ calls'[1].fn = "setFrame" /\ calls'[1].arg = "null"
          /\ calls'[2].fn = "removed"
          /\ \A i \in ViewCalls(calls', "attached") :
                /\ i > 3
                /\ calls'[i].arg = op'.parent
                /\ calls'[i - 1].fn = "setFrame" /\ calls'[i - 1].arg = "frame"
    /\ \A i \in ViewCalls(calls', "attached") :
          ~(IF any THEN calls'[i].notified ELSE calls'[i].attached)
    /\ \A i \in ViewCalls(calls', "removed") : calls'[i].attached

\* C13 as stated: a re-attach detaches first, and a view never receives
\* attached() twice without a removed() in between, whether or not the
\* first attached() succeeded.
C13_NeverAttachedTwice == [][AttachSequencing(TRUE)]_vars

\* C13 amended: attach on an Attached editor sends setFrame(null) and
\* removed() before setFrame(callback) and attached(new window); a view
\* never receives attached() after a successful attached() without a
\* removed() in between, and receives removed() only while attached.  After
\* an attached() that failed, the next attach calls attached() again with no
\* removed() in between.
C13_ReattachDetachesFirst == [][AttachSequencing(FALSE)]_vars

\* C13 witness: an editor attached to one window was attached to another
C13_Witness ==
    /\ AttachCall(op)
    /\ ret = TRUE
    /\ Fns(calls) = <<"setFrame", "removed", "isPlatformTypeSupported",
                      "setFrame", "attached">>
    /\ calls[2].attached
    /\ parent_window = op.parent

\* C14: when the view answers that the window type is not supported, attach
\* fails with the diagnostic for it, the view receives neither setFrame with
\* the resize callback nor attached(), and no window handle is recorded.
C14_UnsupportedPlatformRefused ==
    ( /\ AttachCall(op)
      /\ \E i \in ViewCalls(calls, "isPlatformTypeSupported") :
            calls[i].res # kResultOk ) =>
        /\ ret = FALSE
        /\ g_last_error = "Plugin does not support NSView platform type"
        /\ \A i \in ViewCalls(calls, "setFrame") : calls[i].arg # "frame"
        /\ ViewCalls(calls, "attached") = {}
        /\ parent_window = NullWindow

\* C14 witness: a re-attach was refused for the window type after the view
\* had been detached from its previous window
C14_Witness ==
    /\ AttachCall(op)
    /\ ret = FALSE
    /\ Fns(calls) = <<"setFrame", "removed", "isPlatformTypeSupported">>
    /\ calls[3].res # kResultOk

ResizeCall(o) == IsOp(o, "PlugFrame::resizeView")

\* C15, step by step: a notification with valid arguments is answered
\* kResultFalse exactly if another one is being serviced, and then nothing
\* is resized, onSize is not called and the one being serviced goes on
\* unchanged; otherwise it takes the guard and is serviced.  The container
\* is resized and onSize is called only by the notification being serviced,
\* with its size.  That notification returns kResultTrue and releases the
\* guard, so no guard is held when none is being serviced.
C15_ResizeStep ==
    /\ ( ResizeCall(op') /\ op'.step = "enter" /\ op'.valid ) =>
          /\ (ret' = kResultFalse) <=> (resize_pc # "idle")
          /\ resize_pc # "idle" =>
                /\ calls' = << >>
                /\ UNCHANGED <<resizeRecursionGuard_, resize_pc, resize_req>>
          /\ resize_pc = "idle" =>
                /\ resizeRecursionGuard_'
                /\ resize_pc' = "vst3_resize_nsview"
                /\ resize_req' = op'.newSize
    /\ \A i \in DOMAIN calls' :
          calls'[i].fn \in {"vst3_resize_nsview", "onSize"} =>
              /\ ResizeCall(op') /\ op'.step \in {"resize", "onSize"}
              /\ calls'[i].size = resize_req
    /\ ( ResizeCall(op') /\ op'.step = "return" ) =>
          /\ ret' = kResultOk
          /\ resize_pc' = "idle"
    /\ resize_pc' = "idle" => ~resizeRecursionGuard_'

C15_ResizeReentrancy == [][C15_ResizeStep]_vars

\* C15 witness: a notification returned kResultTrue after a nested one had
\* been answered kResultFalse while it was serviced, and the guard is released
C15_Witness ==
    /\ ResizeCall(op)
    /\ op.step = "return"
    /\ ret = kResultOk
    /\ resize_nested > 0
    /\ ~resizeRecursionGuard_

----------------------------------------------------------------------------
(* Properties of the host and instance lifecycle.                          *)

LoadCall(o) == IsOp(o, "vst3_load_plugin")

IsAudioEffect(d) == d.category = "Audio Module Class"

\* the position of the first audio-effect descriptor of a class list, as a
\* set: empty if the list has none
FirstAudio(cs) ==
    {k \in DOMAIN cs : IsAudioEffect(cs[k]) /\ \A j \in 1..(k - 1) : ~IsAudioEffect(cs[j])}

\* the diagnostic of the first hard failure of a load, "" if it has none
LoadFailure(o, hostReady) ==
    IF o.path_null THEN "Invalid file path"
    ELSE IF ~hostReady THEN "Host not initialized. Call vst3_host_init() first"
    ELSE IF o.module = "std::exception" THEN "Load error: "
    ELSE IF o.module # "module" THEN "Failed to load module: "
    ELSE IF FirstAudio(o.classInfos) = {} THEN "No audio effect class found in plugin"
    ELSE LET d == o.classInfos[CHOOSE k \in FirstAudio(o.classInfos) : TRUE]
         IN IF ~d.creatable THEN "Failed to create component instance"
            ELSE IF d.initRes # kResultOk THEN "Failed to initialize component"
            ELSE ""

CallsOf(c, obj, fn) == {i \in DOMAIN c : c[i].obj = obj /\ c[i].fn = fn}

\* C16: load returns null and records the diagnostic of the cause exactly
\* when the path is null, the host is not initialized, the module does not
\* load, it has no audio-effect class, or the first audio-effect class
\* cannot be created or its initialize fails; in every other outcome it
\* returns a live instance and records no diagnostic.  Only the first
\* audio-effect class is created, and a failed load leaves no instance.
C16_LoadStep ==
    LoadCall(op') =>
        LET failure == LoadFailure(op', g_host_app)
            creates == CallsOf(calls', "factory", "createInstance<IComponent>")
        IN
        /\ (ret' = NullHandle) <=> (failure # "")
        /\ IF failure # ""
           THEN /\ g_last_error' = failure
                /\ ~loaded'
           ELSE /\ ret' = InstA
                /\ loaded'
                /\ g_last_error' = g_last_error
        /\ Cardinality(creates) <= 1
        /\ \A i \in creates : calls'[i].class \in FirstAudio(op'.classInfos)
        /\ \A i \in CallsOf(calls', "component", "initialize") :
              calls'[i].class \in FirstAudio(op'.classInfos)

C16_LoadHardFailures == [][C16_LoadStep]_vars

\* C16 witness: a module whose first audio-effect class failed to
\* initialize and whose second one would have loaded: load returned null
C16_Witness ==
    /\ LoadCall(op)
    /\ ret = NullHandle
    /\ g_last_error = "Failed to initialize component"
    /\ Len(op.classInfos) = 2
    /\ op.classInfos[2].initRes = kResultOk
    /\ ~loaded

\* C17: a load that returns an instance with a controller has called
\* setComponentHandler on it once, with the handler object of the host
\* context, after the controller's initialize.  The handler object changes
\* only when host_init creates it or host_shutdown drops it, so every load
\* between the two installs the same object; and whenever the host context
\* exists the handler exists.
C17_HandlerStep ==
    /\ ( LoadCall(op') /\ ret' # NullHandle /\ controller' ) =>
          LET inits == CallsOf(calls', "controller", "initialize")
              sets == CallsOf(calls', "controller", "setComponentHandler")
          IN
          /\ Cardinality(inits) = 1
          /\ Cardinality(sets) = 1
          /\ \A i \in inits, j \in sets : i < j
          /\ \A j \in sets : /\ calls'[j].handler = g_component_handler
                             /\ calls'[j].handler # NullHandler
          /\ component_handler' = g_component_handler
    /\ g_component_handler' # g_component_handler =>
          \/ IsOp(op', "vst3_host_init") /\ g_component_handler = NullHandler
          \/ IsOp(op', "vst3_host_shutdown") /\ g_component_handler' = NullHandler
    /\ g_host_app' => g_component_handler' # NullHandler

C17_SharedHandlerInstalled == [][C17_HandlerStep]_vars

\* C17 witness: an instance with a controller loaded in the second host
\* session holds that session's handler
C17_Witness ==
    /\ LoadCall(op)
    /\ ret = InstA
    /\ controller
    /\ g_component_handler = 2
    /\ component_handler = 2

\* C18: a successful load makes component connect(controller) and then
\* controller connect(component), after both initialize calls and after
\* setComponentHandler, exactly if a controller was created and both
\* objects are connection points; otherwise it makes no connect call.  A
\* failed load makes none.
C18_ConnectStep ==
    LoadCall(op') =>
        LET cc == CallsOf(calls', "component", "connect")
            kc == CallsOf(calls', "controller", "connect")
            before == CallsOf(calls', "component", "initialize")
                        \cup CallsOf(calls', "controller", "initialize")
                        \cup CallsOf(calls', "controller", "setComponentHandler")
        IN
        IF ret' # NullHandle /\ controller' /\ compCP' /\ ctrlCP'
        THEN /\ Cardinality(cc) = 1 /\ Cardinality(kc) = 1
             /\ \A i \in cc, j \in kc : j = i + 1
             /\ Cardinality(before) = 3
             /\ \A b \in before, i \in cc : b < i
             /\ connected'
        ELSE /\ cc = {} /\ kc = {}
             /\ ~connected'

C18_ConnectBothOrNone == [][C18_ConnectStep]_vars

\* C18 witness: an instance was loaded whose component is a connection
\* point and whose controller is not: no connect call, load succeeded
C18_Witness ==
    /\ LoadCall(op)
    /\ ret = InstA
    /\ controller /\ compCP /\ ~ctrlCP
    /\ CallsOf(calls, "component", "connect") = {}
    /\ ~connected

UnloadCall(o) == IsOp(o, "vst3_unload_plugin") /\ o.handle # NullHandle

\* C19: unload calls, in this order: setProcessing(false) if the instance is
\* active; component disconnect and controller disconnect if the two were
\* connected at load; controller terminate if there is a controller;
\* component terminate.  Nothing else, and the instance is gone after.
C19_UnloadStep ==
    UnloadCall(op') =>
        /\ [i \in DOMAIN calls' |-> <<calls'[i].obj, calls'[i].fn>>] =
              (IF active THEN <<<<"processor", "setProcessing">>>> ELSE << >>)
              \o (IF connected
                  THEN <<<<"component", "disconnect">>, <<"controller", "disconnect">>>>
                  ELSE << >>)
              \o (IF controller THEN <<<<"controller", "terminate">>>> ELSE << >>)
              \o <<<<"component", "terminate">>>>
        /\ \A i \in CallsOf(calls', "processor", "setProcessing") : ~calls'[i].state
        /\ ~connected'
        /\ ~loaded'

C19_UnloadOrder == [][C19_UnloadStep]_vars

\* C19 witness: an active, connected instance was unloaded
C19_Witness ==
    /\ UnloadCall(op)
    /\ Len(calls) = 5
    /\ calls[1].fn = "setProcessing"
    /\ calls[2].fn = "disconnect"
    /\ calls[5].fn = "terminate"

HandleCall(o, n) == IsOp(o, n) /\ o.handle # NullHandle

\* C20: a process call the plugin fails returns failure and leaves the
\* instance and its initialized and active flags as they were.  On an
\* instance that has had such a failure, a process call while active is
\* forwarded to the plugin again, deactivate succeeds and ends inactive,
\* activate is forwarded and succeeds if the plugin accepts it, and unload
\* terminates the component and removes the instance.
C20_FailureStep ==
    /\ ( HandleCall(op', "vst3_process_audio") /\ Len(calls') = 1
         /\ calls'[1].res # kResultOk ) =>
          /\ ret' = FALSE
          /\ process_failed'
          /\ loaded'
          /\ initialized' = initialized
          /\ active' = active
    /\ process_failed =>
          /\ HandleCall(op', "vst3_process_audio") /\ active =>
                /\ Len(calls') = 1
                /\ calls'[1].fn = "process"
                /\ ret' = (calls'[1].res = kResultOk)
          /\ HandleCall(op', "vst3_deactivate_plugin") => ret' = TRUE /\ ~active'
          /\ HandleCall(op', "vst3_activate_plugin") =>
                /\ Len(calls') = 1
                /\ calls'[1].res = kResultOk => ret' = TRUE /\ active'
          /\ HandleCall(op', "vst3_unload_plugin") =>
                /\ calls'[Len(calls')].fn = "terminate"
                /\ ~loaded'

C20_ProcessFailureIsPerCall == [][C20_FailureStep]_vars

\* C20 witness: a process call succeeded on an instance after an earlier
\* process call of it had failed
C20_Witness ==
    /\ HandleCall(op, "vst3_process_audio")
    /\ process_failed
    /\ ret = TRUE
    /\ active

----------------------------------------------------------------------------
(* Event delivery.                                                         *)

\* a note event was accepted by the step: the queue grew by one
NoteAccepted ==
    /\ HandleCall(op', "vst3_process_midi_event")
    /\ op'.event_type \in {0, 1}
    /\ ret' = TRUE

\* the event the step appended, behind the events already queued
AppendedBehind(q, q2) == Len(q2) = Len(q) + 1 /\ SubSeq(q2, 1, Len(q)) = q

\* the process call of the step was forwarded to the plugin
ProcessForwarded == HandleCall(op', "vst3_process_audio") /\ Len(calls') = 1

\* the queue changes only by an accepted note event or a forwarded process
\* call, which hands the plugin the whole queue in order and empties it
C21_FlushStep ==
    /\ ProcessForwarded =>
          /\ calls'[1].inputEvents.events = midi_events
          /\ midi_events' = << >>
    /\ midi_events' # midi_events => NoteAccepted \/ ProcessForwarded

\* the type of the stored event is the one asked for
SameType(e, o) ==
    e.type = IF o.event_type = 0 THEN "kNoteOnEvent" ELSE "kNoteOffEvent"

\* x is the 16-bit signed integer congruent to v modulo 2^16
IsInt16Of(x, v) == x \in -32768..32767 /\ (x - v) % 65536 = 0

\* C21 as stated: the stream handed to the plugin is the accepted note
\* events since the last flush, in enqueue order, each with its type,
\* channel, pitch and sample offset as passed by the caller.
C21_UnchangedStep ==
    /\ C21_FlushStep
    /\ NoteAccepted =>
          /\ AppendedBehind(midi_events, midi_events')
          /\ LET e == midi_events'[Len(midi_events')] IN
                /\ SameType(e, op')
                /\ e.channel = op'.channel
                /\ e.pitch = op'.data1
                /\ e.sampleOffset = op'.sample_offset

C21_FifoUnchanged == [][C21_UnchangedStep]_vars

\* C21 amended: the same delivery, in enqueue order and exactly once, with
\* type and sample offset as passed and with channel and pitch converted to
\* 16-bit signed integers: as passed when within -32768..32767, else
\* reduced modulo 2^16.
C21_DeliveryStep ==
    /\ C21_FlushStep
    /\ NoteAccepted =>
          /\ AppendedBehind(midi_events, midi_events')
          /\ LET e == midi_events'[Len(midi_events')] IN
                /\ SameType(e, op')
                /\ IsInt16Of(e.channel, op'.channel)
                /\ IsInt16Of(e.pitch, op'.data1)
                /\ op'.channel \in -32768..32767 => e.channel = op'.channel
                /\ op'.data1 \in -32768..32767 => e.pitch = op'.data1
                /\ e.sampleOffset = op'.sample_offset

C21_FifoDelivery == [][C21_DeliveryStep]_vars

\* C21 witness: a process call handed the plugin two different events, the
\* note-on with pitch 40000 (delivered as -25536) ahead of the note-off on
\* channel 65537 (delivered as channel 1), and left the queue empty
C21_Witness ==
    /\ HandleCall(op, "vst3_process_audio")
    /\ Len(calls) = 1
    /\ Len(calls[1].inputEvents.events) = 2
    /\ calls[1].inputEvents.events[1].pitch = -25536
    /\ calls[1].inputEvents.events[2].channel = 1
    /\ calls[1].inputEvents.events[2].type = "kNoteOffEvent"
    /\ midi_events = << >>

\* C22: the input event stream of a forwarded process call is absent (null)
\* exactly when the queue holds no event at the call; when the queue holds
\* events the stream is the instance's own queue; a present stream is never
\* empty.
C22_StreamStep ==
    ProcessForwarded =>
        LET stream == calls'[1].inputEvents IN
        /\ stream.present = (Len(midi_events) > 0)
        /\ stream.present => stream.events = midi_events /\ Len(stream.events) > 0
        /\ ~stream.present => stream.events = << >>

C22_StreamAbsentIffEmpty == [][C22_StreamStep]_vars

\* C22 witness: a process call on an active instance whose queue was empty
\* reached the plugin without an event stream
C22_Witness ==
    /\ HandleCall(op, "vst3_process_audio")
    /\ Len(calls) = 1
    /\ calls[1].fn = "process"
    /\ ~calls[1].inputEvents.present

\* C23: on an instance with a processor a control-change enqueue (type 2)
\* returns success and leaves the queue as it was, also when the queue is
\* full; an enqueue of any other type than 0, 1, 2 returns failure and
\* leaves the queue as it was.
C23_TypeStep ==
    HandleCall(op', "vst3_process_midi_event") /\ processor =>
        /\ op'.event_type = 2 => ret' = TRUE /\ midi_events' = midi_events
        /\ op'.event_type \notin {0, 1, 2} =>
              ret' = FALSE /\ midi_events' = midi_events

C23_ControlChangeIsNoOp == [][C23_TypeStep]_vars

\* C23 witness: a control-change enqueue succeeded on a queue of 128 events
C23_Witness ==
    /\ HandleCall(op, "vst3_process_midi_event")
    /\ op.event_type = 2
    /\ ret = TRUE
    /\ Len(midi_events) = 128

----------------------------------------------------------------------------
(* Properties of the component handler.                                    *)

HandlerMethods ==
    {"ComponentHandler::beginEdit", "ComponentHandler::performEdit",
     "ComponentHandler::endEdit", "ComponentHandler::restartComponent"}

\* C24: beginEdit, performEdit, endEdit and restartComponent return success
\* for every parameter id, value and flag set, whatever the state of the
\* host and of the instance, and change nothing of either.
C24_HandlerStep ==
    op'.name \in HandlerMethods =>
        /\ ret' = kResultOk
        /\ calls' = << >>
        /\ UNCHANGED <<g_last_error, engineVars, editorVars, resizeVars,
                       codecVars, lifecycleVars>>

C24_HandlerAcceptsAndIgnores == [][C24_HandlerStep]_vars

\* C24 witness: restartComponent returned success on an active instance
\* after the host context had been shut down
C24_Witness ==
    /\ IsOp(op, "ComponentHandler::restartComponent")
    /\ ret = kResultOk
    /\ active
    /\ ~g_host_app

----------------------------------------------------------------------------
(* Properties of the host singletons and of the diagnostics.               *)

\* C25: over every sequence of host_init, host_shutdown, load and unload,
\* while an instance is loaded the host holds its context and its handler,
\* and a host_init call never replaces a context or a handler that exists.
C25_SingletonStep ==
    /\ loaded' => g_host_app' /\ g_component_handler' # NullHandler
    /\ IsOp(op', "vst3_host_init") =>
          /\ g_host_app'
          /\ g_component_handler # NullHandler =>
                g_component_handler' = g_component_handler

C25_SingletonsOutliveInstances == [][C25_SingletonStep]_vars

\* the API calls that report failure as false
BoolCalls ==
    {"vst3_host_init", "vst3_initialize_plugin", "vst3_activate_plugin",
     "vst3_deactivate_plugin", "vst3_process_audio", "vst3_process_midi_event",
     "vst3_set_state", "vst3_open_editor", "vst3_attach_editor",
     "vst3_get_parameter_info", "vst3_set_parameter_value"}

\* the call o reported failure by its return value r: false, null or -1
ReportedFailure(o, r) ==
    IF o.name \in BoolCalls THEN r = FALSE
    ELSE IF o.name = "vst3_load_plugin" THEN r = NullHandle
    ELSE IF o.name = "vst3_get_state" THEN r = -1
    ELSE FALSE

\* C26: after an API call that reported failure, vst3_get_last_error
\* returns a diagnostic that this very call recorded: it is not empty and
\* not left over from an earlier call.
C26_DiagnosticStep ==
    ReportedFailure(op', ret') => error_recorded' /\ g_last_error' # ""

C26_FailureCarriesDiagnostic == [][C26_DiagnosticStep]_vars

----------------------------------------------------------------------------
(* Properties of an instance without a controller.                         *)

\* the entry points that ask the controller, with what each returns when
\* there is none
NeutralResult ==
    [vst3_get_parameter_count |-> 0, vst3_get_parameter_value |-> 0,
     vst3_set_parameter_value |-> FALSE, vst3_get_parameter_info |-> FALSE,
     vst3_has_editor |-> FALSE, vst3_open_editor |-> FALSE]

\* C27: a load for which no controller could be obtained succeeds and
\* records no error.  On the instance it returns, get_parameter_count
\* returns 0, get_parameter_value 0.0, set_parameter_value and
\* get_parameter_info false, has_editor false, and open_editor fails and
\* leaves the editor closed; none of them calls the plugin or changes the
\* instance.
C27_NoControllerStep ==
    /\ ( LoadCall(op') /\ LoadFailure(op', g_host_app) = "" /\ ~controller' ) =>
          /\ ret' = InstA
          /\ loaded'
          /\ g_last_error' = g_last_error
          /\ ~error_recorded'
    /\ ( /\ op'.name \in DOMAIN NeutralResult
         /\ op'.handle # NullHandle
         /\ ~controller ) =>
          /\ ret' = NeutralResult[op'.name]
          /\ calls' = << >>
          /\ ~editor_open'
          /\ UNCHANGED <<engineVars, editorVars, resizeVars, codecVars,
                         lifecycleVars>>

C27_NoControllerIsNeutral == [][C27_NoControllerStep]_vars

\* C27 witness: open_editor failed on a loaded instance without controller
\* and left its editor closed
C27_Witness ==
    /\ HandleCall(op, "vst3_open_editor")
    /\ loaded
    /\ ~controller
    /\ ret = FALSE
    /\ g_last_error = "No edit controller available"
    /\ ~editor_open

----------------------------------------------------------------------------
(* The complete lifetime of an instance.                                   *)

\* every plugin call of c that reports a result reported success
EngineCallsSucceeded(c) ==
    \A i \in DOMAIN c : "res" \in DOMAIN c[i] => c[i].res = kResultOk

\* the step is the call number k of HappyPath, made right after the calls
\* before it succeeded, on the instance if it takes one, with a plugin that
\* has a processor and answers every call with success
HappyCall(k) ==
    /\ happy_path = k - 1
    /\ op'.name = HappyPath[k]
    /\ k = 2 => LoadFailure(op', g_host_app) = "" /\ processor'
    /\ k > 2 => op'.handle = InstA /\ processor /\ EngineCallsSucceeded(calls')

\* C28: with a plugin that exposes an audio-effect class and answers every
\* call with success, host_init, load, initialize, activate, process,
\* deactivate and unload in this order each succeed; the instance is active
\* from the activate to the deactivate and at no other point, and it is
\* destroyed by the unload.
C28_HappyStep ==
    /\ HappyCall(1) => ret' = TRUE /\ g_host_app'
    /\ HappyCall(2) => ret' = InstA /\ loaded' /\ ~initialized' /\ ~active'
    /\ HappyCall(3) => ret' = TRUE /\ initialized' /\ ~active'
    /\ HappyCall(4) => ret' = TRUE /\ active'
    /\ HappyCall(5) => ret' = TRUE /\ active' /\ Cardinality(ProcessCalls(calls')) = 1
    /\ HappyCall(6) => ret' = TRUE /\ ~active' /\ loaded'
    /\ HappyCall(7) => ~loaded' /\ ~active' /\ calls'[Len(calls')].fn = "terminate"
    /\ happy_path' \in {4, 5} => active'
    /\ happy_path' \in {2, 3, 6} => loaded' /\ ~active'
    /\ active' /\ ~active =>
          HandleCall(op', "vst3_activate_plugin") /\ ret' = TRUE
    /\ active /\ ~active' =>
          \/ HandleCall(op', "vst3_deactivate_plugin")
          \/ HandleCall(op', "vst3_unload_plugin")

C28_FullLifetimeSucceeds == [][C28_HappyStep]_vars

\* C28 witness: the seven calls were made in order, each succeeded, and the
\* instance is gone
C28_Witness ==
    /\ happy_path = 7
    /\ HandleCall(op, "vst3_unload_plugin")
    /\ ~loaded
    /\ g_host_app

----------------------------------------------------------------------------
(* Sample offsets and concurrent enqueue.                                  *)

\* C29: every event in the queue has a sample offset of at least 0 and
\* below the block size given to the last initialize (512 before any);
\* enqueue never stores an event whose offset is outside this range.
C29_OffsetsWithinBlock ==
    \A i \in DOMAIN midi_events :
        /\ midi_events[i].sampleOffset >= 0
        /\ midi_events[i].sampleOffset < max_block_size

\* C30: the flush is atomic with respect to enqueue.  When enqueue calls
\* of another thread fall between the emptiness test, the plugin's process
\* call and the clear of a process call, every event the clear removes was
\* handed to the plugin by this process call, in the same order, so that
\* each accepted event is presented in exactly one process call.
C30_ClearStep ==
    audio_thread.pc = "clear" /\ audio_thread'.pc = "idle" =>
        /\ midi_events' = << >>
        /\ midi_events = audio_thread.handed.events

C30_FlushAtomic == [][C30_ClearStep]_vars

----------------------------------------------------------------------------
(* Frame count of a process call.                                          *)

\* C31: the plugin's process entry point is never called with a frame
\* count above the block size of the instance's initialize, nor with a
\* negative one.
C31_FrameStep ==
    ProcessForwarded =>
        /\ calls'[1].numSamples >= 0
        /\ calls'[1].numSamples <= max_block_size

C31_FramesWithinBlock == [][C31_FrameStep]_vars

----------------------------------------------------------------------------
(* Editor state nesting.                                                   *)

\* the view's attached() of the step that reported success for window w,
\* as the last call of the step
AttachedLast(c, w) ==
    /\ c # << >>
    /\ c[Len(c)].fn = "attached"
    /\ c[Len(c)].arg = w
    /\ c[Len(c)].res = kResultOk

\* C32: editor_open holds exactly when the instance holds an editor view; a
\* recorded window implies editor_open; a window is recorded only by an
\* attach whose attached() reported success, and once removed() is sent the
\* window it was recorded for is no longer recorded; a resize callback is
\* held only while the editor is open.
C32_NestingStep ==
    /\ editor_open' = editor_view'
    /\ parent_window' # NullWindow => editor_open'
    /\ plug_frame' => editor_open'
    /\ parent_window' # NullWindow =>
          \/ parent_window' = parent_window /\ ViewCalls(calls', "removed") = {}
          \/ AttachCall(op') /\ AttachedLast(calls', parent_window')
    /\ ViewCalls(calls', "removed") # {} =>
          \/ parent_window' = NullWindow
          \/ AttachCall(op') /\ AttachedLast(calls', parent_window')

C32_EditorStatesNest == [][C32_NestingStep]_vars

\* C32 witness: an attached editor was attached to another window: the
\* view received removed() and then a successful attached(), and the new
\* window is recorded with the editor open and the callback held
C32_Witness ==
    /\ AttachCall(op)
    /\ ViewCalls(calls, "removed") # {}
    /\ AttachedLast(calls, parent_window)
    /\ parent_window # NullWindow
    /\ editor_open /\ editor_view /\ plug_frame

----------------------------------------------------------------------------
(* Order of the steps of a resize notification.                            *)

ResizeStepIs(st) == ResizeCall(op') /\ op'.step = st

\* C33: a notification with valid arguments that arrives while none is
\* being serviced first resizes the container to the requested size if a
\* window is attached, then asks the view for its size, calls onSize with
\* the requested size only if the view answered with another size, and
\* only then returns kResultTrue.  A notification with a null view or a
\* null rectangle returns kInvalidArgument, resizes nothing, calls nothing
\* and leaves the guard alone.
C33_OrderStep ==
    /\ ( ResizeStepIs("enter") /\ op'.valid /\ resize_pc = "idle" ) =>
          /\ calls' = << >>
          /\ resize_pc' = "vst3_resize_nsview"
          /\ resize_req' = op'.newSize
    /\ ResizeStepIs("resize") =>
          /\ resize_pc = "vst3_resize_nsview"
          /\ resize_pc' = "getSize"
          /\ IF parent_window # NullWindow
             THEN /\ Len(calls') = 1
                  /\ calls'[1].fn = "vst3_resize_nsview"
                  /\ calls'[1].window = parent_window
                  /\ calls'[1].size = resize_req
             ELSE calls' = << >>
    /\ ResizeStepIs("getSize") =>
          /\ resize_pc = "getSize"
          /\ Len(calls') = 1
          /\ calls'[1].fn = "getSize"
          /\ resize_pc' = "onSize" =>
                calls'[1].res = kResultOk /\ calls'[1].size # resize_req
          /\ resize_pc' # "onSize" => resize_pc' = "return"
          /\ ( calls'[1].res = kResultOk /\ calls'[1].size # resize_req ) =>
                resize_pc' = "onSize"
    /\ ResizeStepIs("onSize") =>
          /\ resize_pc = "onSize"
          /\ Len(calls') = 1
          /\ calls'[1].fn = "onSize"
          /\ calls'[1].size = resize_req
          /\ resize_pc' = "return"
    /\ ResizeStepIs("return") =>
          /\ resize_pc = "return"
          /\ ret' = kResultOk
          /\ calls' = << >>
    /\ ( ResizeStepIs("enter") /\ ~op'.valid ) =>
          /\ ret' = kInvalidArgument
          /\ calls' = << >>
          /\ UNCHANGED <<resizeRecursionGuard_, resize_pc, resize_req, editorVars>>

C33_ResizeOrder == [][C33_OrderStep]_vars

\* C33 witness: a notification being serviced on an attached editor has
\* reached its onSize call, with the requested size
C33_Witness ==
    /\ ResizeCall(op)
    /\ op.step = "onSize"
    /\ calls[1].size = resize_req
    /\ parent_window # NullWindow
    /\ resizeRecursionGuard_

----------------------------------------------------------------------------
(* Unload of an instance with an editor.                                   *)

\* the positions in c of the calls fn on obj
CallsOn(c, obj, fn) == {i \in DOMAIN c : c[i].obj = obj /\ c[i].fn = fn}

\* C34: unload of an instance whose editor is open first ends the editor
\* session: the view receives setFrame(null) and, if attached, removed()
\* before controller and component are terminated; after the unload the
\* view is not attached and holds no resize callback of the instance.
C34_UnloadStep ==
    ( HandleCall(op', "vst3_unload_plugin") /\ editor_open ) =>
        LET terminates == CallsOn(calls', "controller", "terminate")
                            \cup CallsOn(calls', "component", "terminate")
            setFrames == {i \in ViewCalls(calls', "setFrame") : calls'[i].arg = "null"}
            removeds == ViewCalls(calls', "removed")
        IN
        /\ \E i \in setFrames : \A t \in terminates : i < t
        /\ parent_window # NullWindow =>
              \E i \in removeds : \A t \in terminates : i < t
        /\ ~view_attached'
        /\ view_frame' # "frame"

C34_UnloadClosesEditor == [][C34_UnloadStep]_vars

----------------------------------------------------------------------------
(* Failed attach.                                                          *)

\* the attach of the step failed after it had reached the view
AttachFailedOnView ==
    /\ AttachCall(op')
    /\ ret' = FALSE
    /\ op'.parent # NullWindow
    /\ editor_open

\* C35 as stated: an attach that fails on an instance attached to a window
\* leaves it attached to that window with its resize callback installed,
\* and the view has received neither setFrame(null) nor removed().
C35_FailedStepKeeps ==
    AttachFailedOnView /\ parent_window # NullWindow =>
        /\ parent_window' = parent_window
        /\ plug_frame'
        /\ view_frame' = "frame"
        /\ view_attached'
        /\ ViewCalls(calls', "removed") = {}
        /\ \A i \in ViewCalls(calls', "setFrame") : calls'[i].arg # "null"

C35_FailedAttachKeepsState == [][C35_FailedStepKeeps]_vars

\* C35 amended: an attach that fails because the view does not support the
\* window type, or because attached() is rejected or throws, leaves the
\* editor open with its view and with no window recorded.  If the instance
\* was attached to a window, the view has first received setFrame(null)
\* and removed() and is no longer attached; if it was not, the view has
\* received no removed().  An attach refused for a null window or a closed
\* editor changes nothing.
C35_FailedStepDetaches ==
    /\ AttachFailedOnView =>
          /\ editor_open' /\ editor_view'
          /\ parent_window' = NullWindow
          /\ ~view_attached'
          /\ IF parent_window # NullWindow
             THEN /\ Len(calls') >= 3
                  /\ calls'[1].fn = "setFrame" /\ calls'[1].arg = "null"
                  /\ calls'[2].fn = "removed"
                  /\ ViewCalls(calls', "removed") = {2}
             ELSE ViewCalls(calls', "removed") = {}
    /\ ( AttachCall(op') /\ (op'.parent = NullWindow \/ ~editor_open) ) =>
          /\ ret' = FALSE
          /\ calls' = << >>
          /\ UNCHANGED editorVars

C35_FailedAttachDetaches == [][C35_FailedStepDetaches]_vars

\* C35 witness: an attach to a second window failed in attached() on an
\* attached editor, which is left open and detached
C35_Witness ==
    /\ AttachCall(op)
    /\ ret = FALSE
    /\ g_last_error = "Failed to attach editor to parent window"
    /\ Fns(calls) = <<"setFrame", "removed", "isPlatformTypeSupported",
                      "setFrame", "attached">>
    /\ parent_window = NullWindow
    /\ editor_open

----------------------------------------------------------------------------
(* Alternation of setProcessing.                                           *)

\* C36: over initialize, activate, deactivate, process and unload calls on
\* one instance, setProcessing(true) is never issued while the instance is
\* active and setProcessing(false) only while it is, so the calls alternate
\* starting with true; active changes only with a setProcessing call that
\* took effect and then equals its argument; deactivate on an inactive
\* instance makes no plugin call and returns success.
C36_AlternationStep ==
    LET sets == CallsOn(calls', "processor", "setProcessing") IN
    /\ \A i \in sets : calls'[i].state = ~active
    /\ Cardinality(sets) <= 1
    /\ active' # active => sets # {} /\ \A i \in sets : active' = calls'[i].state
    /\ ( HandleCall(op', "vst3_deactivate_plugin") /\ ~active ) =>
          calls' = << >> /\ ret' = TRUE

C36_SetProcessingAlternates == [][C36_AlternationStep]_vars

====
